---- MODULE Spec2Model ----
(***************************************************************************)
(* Model of the FIFO lot-matching engine (app/services/fifo_engine.py), of *)
(* the daily-series / aggregate builder                                    *)
(* (app/services/metrics_calculator.py), of the extended metrics           *)
(* (app/services/enhanced_metrics.py) and of the two endpoints that store  *)
(* their results (app/api/ingest.py, app/api/metrics.py).                  *)
(*                                                                         *)
(* Fixed-point representation of the Decimal values:                       *)
(*   quantity        integer count of 1/QScale shares                      *)
(*   price, P&L      integer count of cents (0.01)                         *)
(*   win_rate        integer count of 0.0001                               *)
(*   profit_factor   integer count of 0.01                                 *)
(*   executed_at     integer count of hours since 2024-01-01 00:00 UTC     *)
(*   date            integer count of days since 2024-01-01                *)
(* A trade's id (a UUID in the code) is its position in the list passed to *)
(* process_trades.                                                         *)
(***************************************************************************)
EXTENDS Integers, Sequences, FiniteSets, TLC

\* ------------------------------------------------------------------ bounds
MaxTrades == 3
MaxQty == 2
MaxPrice == 2
MaxLots == 3
MaxPnl == 2
MaxDay == 1

\* quantities are counted in halves of a share
QScale == 2

Symbols == {"AAPL", "MSFT"}
Sides == {"BUY", "SELL"}

\* Optional values: None, or Some(v)
None == <<>>

Some(v) == <<v>>

\* ----------------------------------------------------------- Decimal helpers
Abs(n) == IF n < 0 THEN -n ELSE n

Min(a, b) == IF a <= b THEN a ELSE b

\* Decimal.quantize(..., rounding=ROUND_HALF_UP) of n/d to a whole unit:
\* nearest, ties away from zero.
QuantizeTruncate(n, d) ==
    IF n < 0 THEN -(Abs(n) \div d) ELSE n \div d

Quantize(n, d) ==
    LET q == (2 * Abs(n) + d) \div (2 * d)
    IN IF n < 0 THEN -q ELSE q

RECURSIVE SumSeq(_)
SumSeq(s) == IF s = <<>> THEN 0 ELSE Head(s) + SumSeq(Tail(s))

\* ------------------------------------------------------------------- engine
\* FIFOEngine.__init__ / the state process_trades starts from
EmptyQueues == [s \in Symbols |-> <<>>]

EmptyEngine ==
    [long_queues |-> EmptyQueues, short_queues |-> EmptyQueues,
     closed_lots |-> <<>>]

\* process_trades "Reset state"
ResetStateKeepLots(engine) ==
    [long_queues |-> EmptyQueues, short_queues |-> EmptyQueues,
     closed_lots |-> engine.closed_lots]

ResetStateKeepQueues(engine) ==
    [long_queues |-> engine.long_queues,
     short_queues |-> engine.short_queues,
     closed_lots |-> <<>>]

ResetState(engine) ==
    [long_queues |-> EmptyQueues, short_queues |-> EmptyQueues,
     closed_lots |-> <<>>]

\* the P&L of a LONG match whatever the position type
RawPnlLongOnly(open_price, close_price, quantity, position_type) ==
    (close_price - open_price) * quantity

\* P&L of one match, in cents/QScale, before rounding
RawPnl(open_price, close_price, quantity, position_type) ==
    IF position_type = "LONG"
    THEN (close_price - open_price) * quantity
    ELSE (open_price - close_price) * quantity

CreateClosedLotSwapped(open_trade, close_trade, quantity, position_type) ==
    [symbol |-> open_trade.symbol,
     position_type |-> position_type,
     open_trade_id |-> close_trade.id,
     open_quantity |-> quantity,
     open_price |-> close_trade.price,
     open_executed_at |-> close_trade.executed_at,
     close_trade_id |-> open_trade.id,
     close_quantity |-> quantity,
     close_price |-> open_trade.price,
     close_executed_at |-> open_trade.executed_at,
     realized_pnl |-> Quantize(RawPnl(close_trade.price, open_trade.price,
                                      quantity, position_type), QScale)]

CreateClosedLotRoundFirst(open_trade, close_trade, quantity, position_type) ==
    [symbol |-> open_trade.symbol,
     position_type |-> position_type,
     open_trade_id |-> open_trade.id,
     open_quantity |-> quantity,
     open_price |-> open_trade.price,
     open_executed_at |-> open_trade.executed_at,
     close_trade_id |-> close_trade.id,
     close_quantity |-> quantity,
     close_price |-> close_trade.price,
     close_executed_at |-> close_trade.executed_at,
     realized_pnl |-> Quantize(RawPnl(open_trade.price, close_trade.price,
                                      1, position_type), QScale) * quantity]

CreateClosedLotAlwaysLong(open_trade, close_trade, quantity, position_type) ==
    [symbol |-> open_trade.symbol,
     position_type |-> "LONG",
     open_trade_id |-> open_trade.id,
     open_quantity |-> quantity,
     open_price |-> open_trade.price,
     open_executed_at |-> open_trade.executed_at,
     close_trade_id |-> close_trade.id,
     close_quantity |-> quantity,
     close_price |-> close_trade.price,
     close_executed_at |-> close_trade.executed_at,
     realized_pnl |-> Quantize(RawPnl(open_trade.price, close_trade.price,
                                      quantity, position_type), QScale)]

CreateClosedLot(open_trade, close_trade, quantity, position_type) ==
    [symbol |-> open_trade.symbol,
     position_type |-> position_type,
     open_trade_id |-> open_trade.id,
     open_quantity |-> quantity,
     open_price |-> open_trade.price,
     open_executed_at |-> open_trade.executed_at,
     close_trade_id |-> close_trade.id,
     close_quantity |-> quantity,
     close_price |-> close_trade.price,
     close_executed_at |-> close_trade.executed_at,
     realized_pnl |-> Quantize(RawPnl(open_trade.price, close_trade.price,
                                      quantity, position_type), QScale)]

\* the entry of the queue a closing trade is matched with: queue[0]
MatchIndexNewest(queue) == Len(queue)

MatchIndex(queue) == 1

\* match_qty = min(remaining, open_qty)
MatchQtyWholeEntry(remaining, open_qty) == open_qty

MatchQtyRemaining(remaining, open_qty) == remaining

MatchQty(remaining, open_qty) == Min(remaining, open_qty)

RemoveAt(queue, i) ==
    SubSeq(queue, 1, i - 1) \o SubSeq(queue, i + 1, Len(queue))

\* one match with the head entry instead of the loop
MatchAgainstQueueOnce(trade, remaining, queue, position_type, lots) ==
    IF remaining > 0 /\ queue # <<>>
    THEN LET open_trade == queue[1].trade
             open_qty == queue[1].qty
             match_qty == Min(remaining, open_qty)
             closed_lot == CreateClosedLot(open_trade, trade, match_qty,
                                           position_type)
             left == open_qty - match_qty
             queue2 == IF left = 0
                       THEN Tail(queue)
                       ELSE [queue EXCEPT ![1] =
                                [trade |-> open_trade, qty |-> left]]
         IN [remaining |-> remaining - match_qty, queue |-> queue2,
             lots |-> Append(lots, closed_lot)]
    ELSE [remaining |-> remaining, queue |-> queue, lots |-> lots]

\* _match_against_queue: the while loop, carrying the lots it appends
RECURSIVE MatchAgainstQueue(_, _, _, _, _)
MatchAgainstQueue(trade, remaining, queue, position_type, lots) ==
    IF remaining > 0 /\ queue # <<>>
    THEN LET i == MatchIndex(queue)
             open_trade == queue[i].trade
             open_qty == queue[i].qty
             match_qty == MatchQty(remaining, open_qty)
             closed_lot == CreateClosedLot(open_trade, trade, match_qty,
                                           position_type)
             left == open_qty - match_qty
             queue2 == IF left = 0
                       THEN RemoveAt(queue, i)
                       ELSE [queue EXCEPT ![i] =
                                [trade |-> open_trade, qty |-> left]]
         IN MatchAgainstQueue(trade, remaining - match_qty, queue2,
                              position_type, Append(lots, closed_lot))
    ELSE [remaining |-> remaining, queue |-> queue, lots |-> lots]

\* _process_trade with the queues of the first symbol for every trade
ProcessTradeSharedQueues(engine, trade) ==
    LET symbol == "AAPL"
    IN IF trade.side = "BUY"
       THEN LET m == MatchAgainstQueue(trade, trade.quantity,
                                       engine.short_queues[symbol], "SHORT",
                                       engine.closed_lots)
            IN [long_queues |->
                    IF m.remaining > 0
                    THEN [engine.long_queues EXCEPT ![symbol] =
                            Append(@, [trade |-> trade, qty |-> m.remaining])]
                    ELSE engine.long_queues,
                short_queues |->
                    [engine.short_queues EXCEPT ![symbol] = m.queue],
                closed_lots |-> m.lots]
       ELSE LET m == MatchAgainstQueue(trade, trade.quantity,
                                       engine.long_queues[symbol], "LONG",
                                       engine.closed_lots)
            IN [long_queues |->
                    [engine.long_queues EXCEPT ![symbol] = m.queue],
                short_queues |->
                    IF m.remaining > 0
                    THEN [engine.short_queues EXCEPT ![symbol] =
                            Append(@, [trade |-> trade, qty |-> m.remaining])]
                    ELSE engine.short_queues,
                closed_lots |-> m.lots]

\* _process_trade with one match instead of the matching loop
ProcessTradeHeadOnly(engine, trade) ==
    LET symbol == trade.symbol
    IN IF trade.side = "BUY"
       THEN LET m == MatchAgainstQueueOnce(trade, trade.quantity,
                                           engine.short_queues[symbol],
                                           "SHORT", engine.closed_lots)
            IN [long_queues |->
                    IF m.remaining > 0
                    THEN [engine.long_queues EXCEPT ![symbol] =
                            Append(@, [trade |-> trade, qty |-> m.remaining])]
                    ELSE engine.long_queues,
                short_queues |->
                    [engine.short_queues EXCEPT ![symbol] = m.queue],
                closed_lots |-> m.lots]
       ELSE LET m == MatchAgainstQueueOnce(trade, trade.quantity,
                                           engine.long_queues[symbol],
                                           "LONG", engine.closed_lots)
            IN [long_queues |->
                    [engine.long_queues EXCEPT ![symbol] = m.queue],
                short_queues |->
                    IF m.remaining > 0
                    THEN [engine.short_queues EXCEPT ![symbol] =
                            Append(@, [trade |-> trade, qty |-> m.remaining])]
                    ELSE engine.short_queues,
                closed_lots |-> m.lots]

\* _process_trade
ProcessTrade(engine, trade) ==
    LET symbol == trade.symbol
    IN IF trade.side = "BUY"
       THEN LET m == MatchAgainstQueue(trade, trade.quantity,
                                       engine.short_queues[symbol], "SHORT",
                                       engine.closed_lots)
            IN [long_queues |->
                    IF m.remaining > 0
                    THEN [engine.long_queues EXCEPT ![symbol] =
                            Append(@, [trade |-> trade, qty |-> m.remaining])]
                    ELSE engine.long_queues,
                short_queues |->
                    [engine.short_queues EXCEPT ![symbol] = m.queue],
                closed_lots |-> m.lots]
       ELSE LET m == MatchAgainstQueue(trade, trade.quantity,
                                       engine.long_queues[symbol], "LONG",
                                       engine.closed_lots)
            IN [long_queues |->
                    [engine.long_queues EXCEPT ![symbol] = m.queue],
                short_queues |->
                    IF m.remaining > 0
                    THEN [engine.short_queues EXCEPT ![symbol] =
                            Append(@, [trade |-> trade, qty |-> m.remaining])]
                    ELSE engine.short_queues,
                closed_lots |-> m.lots]

\* process_trades as one call: reset, then every trade in list order
RECURSIVE ProcessAll(_, _)
ProcessAll(engine, ts) ==
    IF ts = <<>> THEN engine
    ELSE ProcessAll(ProcessTrade(engine, Head(ts)), Tail(ts))

ProcessTrades(engine, ts) == ProcessAll(ResetState(engine), ts)

\* get_open_positions
RECURSIVE QueueQty(_)
QueueQty(queue) ==
    IF queue = <<>> THEN 0 ELSE Head(queue).qty + QueueQty(Tail(queue))

RECURSIVE QueueCost(_)
QueueCost(queue) ==
    IF queue = <<>> THEN 0
    ELSE Head(queue).trade.price * Head(queue).qty + QueueCost(Tail(queue))

\* the plain mean of the entries' prices
PositionOfPlainMean(queue, position_type) ==
    [type |-> position_type,
     quantity |-> QueueQty(queue),
     average_price |->
        IF QueueQty(queue) > 0
        THEN Quantize(SumSeq([k \in DOMAIN queue |-> queue[k].trade.price]),
                      Len(queue))
        ELSE 0,
     lots |-> Len(queue)]

PositionOf(queue, position_type) ==
    [type |-> position_type,
     quantity |-> QueueQty(queue),
     average_price |->
        IF QueueQty(queue) > 0
        THEN Quantize(QueueCost(queue), QueueQty(queue))
        ELSE 0,
     lots |-> Len(queue)]

\* a key is <<symbol, "">> for symbol and <<symbol, "_SHORT">> for
\* f"{symbol}_SHORT"
GetOpenPositions(engine) ==
    LET longs == {s \in Symbols : engine.long_queues[s] # <<>>}
        shorts == {s \in Symbols : engine.short_queues[s] # <<>>}
        keys == {<<s, "">> : s \in longs \cup shorts}
                    \cup {<<s, "_SHORT">> : s \in longs \cap shorts}
    IN [k \in keys |->
            IF k[2] = "" /\ k[1] \in longs
            THEN PositionOf(engine.long_queues[k[1]], "LONG")
            ELSE PositionOf(engine.short_queues[k[1]], "SHORT")]

\* ---------------------------------------------------------- daily series
\* lot.close_executed_at.astimezone(EST).date(): America/New_York is UTC-5
\* in the modelled window (January, no daylight saving)
EstOffsetHours == 5

EstDate(executed_at) == (executed_at - EstOffsetHours) \div 24

\* the lots grouped under the date of the close in UTC
LotsOnUtcDate(closed_lots, day) ==
    {i \in DOMAIN closed_lots : closed_lots[i].close_executed_at \div 24 = day}

\* indices of the lots grouped under a date: daily_lots[close_date]
LotsOn(closed_lots, day) ==
    {i \in DOMAIN closed_lots :
        EstDate(closed_lots[i].close_executed_at) = day}

RECURSIVE SumPnl(_, _)
SumPnl(closed_lots, idx) ==
    IF idx = {} THEN 0
    ELSE LET i == CHOOSE j \in idx : TRUE
         IN closed_lots[i].realized_pnl + SumPnl(closed_lots, idx \ {i})

\* daily_pnl_dict[day] = (daily_total, len(lots))
DailyTotal(closed_lots, day) == SumPnl(closed_lots, LotsOn(closed_lots, day))

DailyCount(closed_lots, day) == Cardinality(LotsOn(closed_lots, day))

ActiveDates(closed_lots) ==
    {EstDate(closed_lots[i].close_executed_at) : i \in DOMAIN closed_lots}

SetMin(S) == CHOOSE x \in S : \A y \in S : x <= y

SetMax(S) == CHOOSE x \in S : \A y \in S : y <= x

\* keys of daily_pnl_dict after the optional gap filling
SeriesDatesNoFill(closed_lots, fill_gaps) == ActiveDates(closed_lots)

SeriesDates(closed_lots, fill_gaps) ==
    IF fill_gaps
    THEN SetMin(ActiveDates(closed_lots)) .. SetMax(ActiveDates(closed_lots))
    ELSE ActiveDates(closed_lots)

\* sorted(daily_pnl_dict.keys())
RECURSIVE SortedDates(_)
SortedDates(S) ==
    IF S = {} THEN <<>>
    ELSE <<SetMin(S)>> \o SortedDates(S \ {SetMin(S)})

\* the running total carried into a row
CumulativeNoCarry(cumulative_pnl, daily_total) == daily_total

Cumulative(cumulative_pnl, daily_total) == cumulative_pnl + daily_total

\* the loop that creates the PerDayPnL rows
RECURSIVE PerDayRows(_, _, _)
PerDayRows(closed_lots, sorted_dates, cumulative_pnl) ==
    IF sorted_dates = <<>> THEN <<>>
    ELSE LET day == Head(sorted_dates)
             daily_total == DailyTotal(closed_lots, day)
             cumulative == Cumulative(cumulative_pnl, daily_total)
         IN <<[date |-> day,
               daily_pnl |-> Quantize(daily_total, 1),
               cumulative_pnl |-> Quantize(cumulative, 1),
               lots_closed |-> DailyCount(closed_lots, day)]>>
            \o PerDayRows(closed_lots, Tail(sorted_dates), cumulative)

GenerateDailyPnlSeries(closed_lots, fill_gaps) ==
    IF closed_lots = <<>> THEN <<>>
    ELSE PerDayRows(closed_lots,
                    SortedDates(SeriesDates(closed_lots, fill_gaps)), 0)

\* -------------------------------------------------------------- aggregates
\* Aggregate(account_id=...): every column at its declared default
EmptyAggregate ==
    [total_realized_pnl |-> 0, total_lots_closed |-> 0, total_trades |-> 0,
     winning_lots |-> 0, losing_lots |-> 0,
     total_gains |-> 0, total_losses |-> 0,
     win_rate |-> None, profit_factor |-> None,
     average_gain |-> None, average_loss |-> None,
     best_symbol |-> None, best_symbol_pnl |-> None,
     worst_symbol |-> None, worst_symbol_pnl |-> None,
     best_weekday |-> None, best_weekday_pnl |-> None,
     worst_weekday |-> None, worst_weekday_pnl |-> None,
     first_trade_date |-> None, last_trade_date |-> None]

\* the lots that do not lose
WinningLotsOrBreakeven(closed_lots) ==
    {i \in DOMAIN closed_lots : closed_lots[i].realized_pnl >= 0}

\* winning_lots / losing_lots, as index sets
WinningLots(closed_lots) ==
    {i \in DOMAIN closed_lots : closed_lots[i].realized_pnl > 0}

LosingLots(closed_lots) ==
    {i \in DOMAIN closed_lots : closed_lots[i].realized_pnl < 0}

\* "x.quantize(...) if x else None": a Decimal equal to zero is falsy.
\* num/den is the unrounded ratio, scale the number of result units in 1.
QuantizeIfTruthy(num, den, scale) ==
    IF num = 0 THEN None ELSE Some(Quantize(num * scale, den))

\* win_rate = Decimal(len(winning_lots)) / Decimal(total_lots), 4 decimals
WinRate(winning, total_lots) ==
    IF total_lots > 0 THEN QuantizeIfTruthy(winning, total_lots, 10000)
    ELSE None

\* profit_factor = total_gains / abs(total_losses), 2 decimals
ProfitFactor(total_gains, total_losses) ==
    IF total_losses < 0
    THEN QuantizeIfTruthy(total_gains, Abs(total_losses), 100)
    ELSE None

\* avg_gain / avg_loss = total / count, 2 decimals
Average(total, count) ==
    IF count > 0 THEN QuantizeIfTruthy(total, count, 1) ELSE None

\* keys of a defaultdict in insertion order: first occurrences of keys[i]
RECURSIVE InsertionOrder(_, _)
InsertionOrder(keys, seen) ==
    IF keys = <<>> THEN <<>>
    ELSE IF Head(keys) \in seen THEN InsertionOrder(Tail(keys), seen)
    ELSE <<Head(keys)>> \o InsertionOrder(Tail(keys), seen \cup {Head(keys)})

SymbolOf(closed_lots) == [i \in DOMAIN closed_lots |-> closed_lots[i].symbol]

WeekdayNames ==
    <<"Monday", "Tuesday", "Wednesday", "Thursday", "Friday", "Saturday",
      "Sunday">>

\* weekday_names[close_dt_est.weekday()]; 2024-01-01 is a Monday
WeekdayOf(closed_lots) ==
    [i \in DOMAIN closed_lots |->
        WeekdayNames[(EstDate(closed_lots[i].close_executed_at) % 7) + 1]]

\* symbol_pnl[key] / weekday_pnl[key]
GroupPnl(closed_lots, keyOf, key) ==
    SumPnl(closed_lots, {i \in DOMAIN closed_lots : keyOf[i] = key})

\* max(d.items(), key=lambda x: x[1]): the first maximal item
RECURSIVE FirstMax(_, _, _, _)
FirstMax(closed_lots, keyOf, order, best) ==
    IF order = <<>> THEN best
    ELSE FirstMax(closed_lots, keyOf, Tail(order),
                  IF GroupPnl(closed_lots, keyOf, Head(order))
                        > GroupPnl(closed_lots, keyOf, best)
                  THEN Head(order) ELSE best)

\* min(d.items(), key=lambda x: x[1]): the first minimal item
RECURSIVE FirstMin(_, _, _, _)
FirstMin(closed_lots, keyOf, order, worst) ==
    IF order = <<>> THEN worst
    ELSE FirstMin(closed_lots, keyOf, Tail(order),
                  IF GroupPnl(closed_lots, keyOf, Head(order))
                        < GroupPnl(closed_lots, keyOf, worst)
                  THEN Head(order) ELSE worst)

\* the maximal item met first when the keys are walked from the last
\* inserted one
BestKeyLastInserted(closed_lots, keyOf) ==
    LET inserted == InsertionOrder(keyOf, {})
        order == [k \in 1..Len(inserted) |-> inserted[Len(inserted) + 1 - k]]
    IN FirstMax(closed_lots, keyOf, Tail(order), Head(order))

BestKey(closed_lots, keyOf) ==
    LET order == InsertionOrder(keyOf, {})
    IN FirstMax(closed_lots, keyOf, Tail(order), Head(order))

WorstKey(closed_lots, keyOf) ==
    LET order == InsertionOrder(keyOf, {})
    IN FirstMin(closed_lots, keyOf, Tail(order), Head(order))

\* the total of the lots, before rounding
TotalPnl(closed_lots) == SumPnl(closed_lots, DOMAIN closed_lots)

\* calculate_aggregates for a non-empty lot list
AggregateOf(closed_lots, per_day_pnl) ==
    LET total_pnl == TotalPnl(closed_lots)
        total_lots == Len(closed_lots)
        winning_lots == WinningLots(closed_lots)
        losing_lots == LosingLots(closed_lots)
        total_gains == SumPnl(closed_lots, winning_lots)
        total_losses == SumPnl(closed_lots, losing_lots)
        best_symbol == BestKey(closed_lots, SymbolOf(closed_lots))
        worst_symbol == WorstKey(closed_lots, SymbolOf(closed_lots))
        best_weekday == BestKey(closed_lots, WeekdayOf(closed_lots))
        worst_weekday == WorstKey(closed_lots, WeekdayOf(closed_lots))
    IN [total_realized_pnl |-> Quantize(total_pnl, 1),
        total_lots_closed |-> total_lots,
        total_trades |-> total_lots * 2,
        winning_lots |-> Cardinality(winning_lots),
        losing_lots |-> Cardinality(losing_lots),
        total_gains |-> Quantize(total_gains, 1),
        total_losses |-> Quantize(total_losses, 1),
        win_rate |-> WinRate(Cardinality(winning_lots), total_lots),
        profit_factor |-> ProfitFactor(total_gains, total_losses),
        average_gain |-> Average(total_gains, Cardinality(winning_lots)),
        average_loss |-> Average(total_losses, Cardinality(losing_lots)),
        best_symbol |-> Some(best_symbol),
        best_symbol_pnl |->
            QuantizeIfTruthy(
                GroupPnl(closed_lots, SymbolOf(closed_lots), best_symbol),
                1, 1),
        worst_symbol |-> Some(worst_symbol),
        worst_symbol_pnl |->
            QuantizeIfTruthy(
                GroupPnl(closed_lots, SymbolOf(closed_lots), worst_symbol),
                1, 1),
        best_weekday |-> Some(best_weekday),
        best_weekday_pnl |->
            QuantizeIfTruthy(
                GroupPnl(closed_lots, WeekdayOf(closed_lots), best_weekday),
                1, 1),
        worst_weekday |-> Some(worst_weekday),
        worst_weekday_pnl |->
            QuantizeIfTruthy(
                GroupPnl(closed_lots, WeekdayOf(closed_lots), worst_weekday),
                1, 1),
        first_trade_date |->
            IF per_day_pnl # <<>> THEN Some(per_day_pnl[1].date) ELSE None,
        last_trade_date |->
            IF per_day_pnl # <<>>
            THEN Some(per_day_pnl[Len(per_day_pnl)].date)
            ELSE None]

CalculateAggregates(closed_lots, per_day_pnl) ==
    IF closed_lots = <<>> THEN EmptyAggregate
    ELSE AggregateOf(closed_lots, per_day_pnl)

\* -------------------------------------------------------- extended metrics
\* Results of the extended metrics are floats rounded by round(x, n); they
\* are counted in units of 10^-n (holding times in 0.1 minutes, rates in
\* 0.001, money in cents, sizes in 0.1 shares).
\*
\* round(x, n) of the float nearest to num/den, in units of 10^-n: the
\* nearest unit; when num/den lies halfway between two units the direction
\* depends on the binary float, and up tells which one is taken.
RoundFloat(num, den, up) ==
    LET q == num \div den
        r == num - q * den
    IN IF 2 * r < den THEN q
       ELSE IF 2 * r > den THEN q + 1
       ELSE IF up THEN q + 1 ELSE q

\* the largest r with r * r * den <= num
RECURSIVE FloorSqrt(_, _, _)
FloorSqrt(num, den, r) ==
    IF (r + 1) * (r + 1) * den <= num THEN FloorSqrt(num, den, r + 1) ELSE r

\* round(x ** 0.5) for x = num/den, with the same treatment of halves
RoundSqrt(num, den, up) ==
    LET r == FloorSqrt(num, den, 0)
    IN IF 4 * num < (2 * r + 1) * (2 * r + 1) * den THEN r
       ELSE IF 4 * num > (2 * r + 1) * (2 * r + 1) * den THEN r + 1
       ELSE IF up THEN r + 1 ELSE r

RECURSIVE SumOver(_, _)
SumOver(f, idx) ==
    IF idx = {} THEN 0
    ELSE LET i == CHOOSE j \in idx : TRUE
         IN f[i] + SumOver(f, idx \ {i})

\* calculate_holding_times
HoldingEmpty ==
    [avg_holding_time_minutes |-> 0, avg_holding_time_winners |-> 0,
     avg_holding_time_losers |-> 0, quick_flip_rate |-> 0]

CalculateHoldingTimes(lots, up) ==
    LET holding_time ==
            [i \in DOMAIN lots |->
                (lots[i].close_executed_at - lots[i].open_executed_at) * 60]
        winner_times == {i \in DOMAIN lots : lots[i].realized_pnl > 0}
        loser_times == {i \in DOMAIN lots : lots[i].realized_pnl < 0}
        quick_flips == Cardinality({i \in DOMAIN lots : holding_time[i] < 60})
        avg(idx) ==
            IF idx = {} THEN 0
            ELSE RoundFloat(10 * SumOver(holding_time, idx),
                            Cardinality(idx), up)
    IN IF lots = <<>> THEN HoldingEmpty
       ELSE [avg_holding_time_minutes |-> avg(DOMAIN lots),
             avg_holding_time_winners |-> avg(winner_times),
             avg_holding_time_losers |-> avg(loser_times),
             quick_flip_rate |->
                RoundFloat(1000 * quick_flips, Len(lots), up)]

\* calculate_symbol_concentration
LeveragedEtfs ==
    {"TQQQ", "SQQQ", "UPRO", "SPXU", "TNA", "TZA", "UDOW", "SDOW"}

SymbolCount(lots, sym) ==
    Cardinality({i \in DOMAIN lots : lots[i].symbol = sym})

\* sorted(symbol_counts.items(), key=count, reverse=True): a stable sort,
\* so symbols of equal count keep their insertion order
RECURSIVE InsertByCount(_, _, _)
InsertByCount(lots, sorted, sym) ==
    IF sorted = <<>> THEN <<sym>>
    ELSE IF SymbolCount(lots, Head(sorted)) >= SymbolCount(lots, sym)
         THEN <<Head(sorted)>> \o InsertByCount(lots, Tail(sorted), sym)
         ELSE <<sym>> \o sorted

RECURSIVE SortByCount(_, _, _)
SortByCount(lots, order, sorted) ==
    IF order = <<>> THEN sorted
    ELSE SortByCount(lots, Tail(order),
                     InsertByCount(lots, sorted, Head(order)))

CalculateSymbolConcentration(lots, up) ==
    LET order == InsertionOrder(SymbolOf(lots), {})
        sorted_symbols == SortByCount(lots, order, <<>>)
        top_3_symbols == SubSeq(sorted_symbols, 1, Min(3, Len(sorted_symbols)))
        top_3_counts ==
            [k \in DOMAIN top_3_symbols |->
                SymbolCount(lots, top_3_symbols[k])]
        total_trades == Len(lots)
        leveraged_count ==
            Cardinality({i \in DOMAIN lots : lots[i].symbol \in LeveragedEtfs})
    IN [total_unique_symbols |-> Len(order),
        top_3_symbols |-> top_3_symbols,
        top_3_trade_counts |-> top_3_counts,
        concentration_ratio |->
            IF total_trades > 0
            THEN RoundFloat(1000 * SumSeq(top_3_counts), total_trades, up)
            ELSE 0,
        leveraged_etf_pct |->
            IF total_trades > 0
            THEN RoundFloat(1000 * leveraged_count, total_trades, up)
            ELSE 0]

\* sorted(lots, key=lambda x: x.close_executed_at): a stable sort
RECURSIVE InsertByCloseTime(_, _)
InsertByCloseTime(sorted, lot) ==
    IF sorted = <<>> THEN <<lot>>
    ELSE IF Head(sorted).close_executed_at <= lot.close_executed_at
         THEN <<Head(sorted)>> \o InsertByCloseTime(Tail(sorted), lot)
         ELSE <<lot>> \o sorted

RECURSIVE SortByCloseTime(_, _)
SortByCloseTime(lots, sorted) ==
    IF lots = <<>> THEN sorted
    ELSE SortByCloseTime(Tail(lots), InsertByCloseTime(sorted, Head(lots)))

Max(a, b) == IF a >= b THEN a ELSE b

\* the loop of calculate_streaks; st holds its five local variables
StreakStart ==
    [current_streak |-> 0, longest_win_streak |-> 0,
     longest_loss_streak |-> 0, current_win_streak |-> 0,
     current_loss_streak |-> 0]

\* the loop body with a breakeven lot passed over
StreakStepSkipBreakeven(st, lot) ==
    IF lot.realized_pnl > 0
    THEN [st EXCEPT !.current_win_streak = @ + 1,
                    !.current_loss_streak = 0,
                    !.current_streak = st.current_win_streak + 1,
                    !.longest_win_streak =
                        Max(@, st.current_win_streak + 1)]
    ELSE IF lot.realized_pnl < 0
    THEN [st EXCEPT !.current_loss_streak = @ + 1,
                    !.current_win_streak = 0,
                    !.current_streak = -(st.current_loss_streak + 1),
                    !.longest_loss_streak =
                        Max(@, st.current_loss_streak + 1)]
    ELSE st

StreakStep(st, lot) ==
    IF lot.realized_pnl > 0
    THEN [st EXCEPT !.current_win_streak = @ + 1,
                    !.current_loss_streak = 0,
                    !.current_streak = st.current_win_streak + 1,
                    !.longest_win_streak =
                        Max(@, st.current_win_streak + 1)]
    ELSE IF lot.realized_pnl < 0
    THEN [st EXCEPT !.current_loss_streak = @ + 1,
                    !.current_win_streak = 0,
                    !.current_streak = -(st.current_loss_streak + 1),
                    !.longest_loss_streak =
                        Max(@, st.current_loss_streak + 1)]
    ELSE [st EXCEPT !.current_win_streak = 0,
                    !.current_loss_streak = 0]

RECURSIVE StreakLoop(_, _)
StreakLoop(st, sorted_lots) ==
    IF sorted_lots = <<>> THEN st
    ELSE StreakLoop(StreakStep(st, Head(sorted_lots)), Tail(sorted_lots))

CalculateStreaks(lots) ==
    LET st == StreakLoop(StreakStart, SortByCloseTime(lots, <<>>))
    IN [current_streak |-> st.current_streak,
        longest_win_streak |-> st.longest_win_streak,
        longest_loss_streak |-> st.longest_loss_streak]

\* calculate_timing_patterns.  lot.close_executed_at.hour and .month are
\* read from the stored instant as it is (UTC); the modelled window starts
\* on 1 January.  A label f"{h:02d}:00-{h+1:02d}:00" is the pair <<h, h + 1>>.
HourOf(lot) == lot.close_executed_at % 24

MonthOf(lot) == IF lot.close_executed_at \div 24 < 31 THEN 1 ELSE 2

MonthNames ==
    <<"January", "February", "March", "April", "May", "June", "July",
      "August", "September", "October", "November", "December">>

HourLabel(h) == <<h, h + 1>>

BucketOf(lots, keyOf, key) == {i \in DOMAIN lots : keyOf[i] = key}

\* avg(a) < avg(b) for the buckets a and b, as exact fractions
AvgLess(lots, a, b) ==
    SumPnl(lots, a) * Cardinality(b) < SumPnl(lots, b) * Cardinality(a)

\* max / min of the averages: the first maximal / minimal bucket
RECURSIVE BestBucket(_, _, _, _)
BestBucket(lots, keyOf, order, best) ==
    IF order = <<>> THEN best
    ELSE BestBucket(lots, keyOf, Tail(order),
                    IF AvgLess(lots, BucketOf(lots, keyOf, best),
                               BucketOf(lots, keyOf, Head(order)))
                    THEN Head(order) ELSE best)

RECURSIVE WorstBucket(_, _, _, _)
WorstBucket(lots, keyOf, order, worst) ==
    IF order = <<>> THEN worst
    ELSE WorstBucket(lots, keyOf, Tail(order),
                     IF AvgLess(lots, BucketOf(lots, keyOf, Head(order)),
                                BucketOf(lots, keyOf, worst))
                     THEN Head(order) ELSE worst)

BucketAvg(lots, keyOf, key, up) ==
    RoundFloat(SumPnl(lots, BucketOf(lots, keyOf, key)),
               Cardinality(BucketOf(lots, keyOf, key)), up)

\* the result when no lot has been bucketed: best_hour and the others are
\* (0, 0), and a month number 0 is reported as "N/A"
TimingEmptyMonthIndex ==
    [best_hour |-> HourLabel(0), best_hour_avg_pnl |-> 0,
     worst_hour |-> HourLabel(0), worst_hour_avg_pnl |-> 0,
     best_month |-> "", best_month_avg_pnl |-> 0,
     worst_month |-> "", worst_month_avg_pnl |-> 0,
     trades_per_day_avg |-> 0]

TimingEmpty ==
    [best_hour |-> HourLabel(0), best_hour_avg_pnl |-> 0,
     worst_hour |-> HourLabel(0), worst_hour_avg_pnl |-> 0,
     best_month |-> "N/A", best_month_avg_pnl |-> 0,
     worst_month |-> "N/A", worst_month_avg_pnl |-> 0,
     trades_per_day_avg |-> 0]

CalculateTimingPatterns(lots, up) ==
    LET hours == [i \in DOMAIN lots |-> HourOf(lots[i])]
        months == [i \in DOMAIN lots |-> MonthOf(lots[i])]
        hour_order == InsertionOrder(hours, {})
        month_order == InsertionOrder(months, {})
        times == {lots[i].close_executed_at : i \in DOMAIN lots}
        days_trading == (SetMax(times) - SetMin(times)) \div 24 + 1
    IN IF lots = <<>> THEN TimingEmpty
       ELSE LET best_hour ==
                    BestBucket(lots, hours, Tail(hour_order),
                               Head(hour_order))
                worst_hour ==
                    WorstBucket(lots, hours, Tail(hour_order),
                                Head(hour_order))
                best_month ==
                    BestBucket(lots, months, Tail(month_order),
                               Head(month_order))
                worst_month ==
                    WorstBucket(lots, months, Tail(month_order),
                                Head(month_order))
            IN [best_hour |-> HourLabel(best_hour),
                best_hour_avg_pnl |-> BucketAvg(lots, hours, best_hour, up),
                worst_hour |-> HourLabel(worst_hour),
                worst_hour_avg_pnl |->
                    BucketAvg(lots, hours, worst_hour, up),
                best_month |-> MonthNames[best_month],
                best_month_avg_pnl |->
                    BucketAvg(lots, months, best_month, up),
                worst_month |-> MonthNames[worst_month],
                worst_month_avg_pnl |->
                    BucketAvg(lots, months, worst_month, up),
                trades_per_day_avg |->
                    RoundFloat(10 * Len(lots), days_trading, up)]

\* calculate_position_sizing; a quantity is a count of 1/QScale shares
SizingEmpty ==
    [avg_position_size_shares |-> 0, position_size_std_dev |-> 0,
     largest_position |-> 0, smallest_position |-> 0,
     sizing_consistency_score |-> 0]

CalculatePositionSizing(lots, up) ==
    LET quantities == [i \in DOMAIN lots |-> Abs(lots[i].open_quantity)]
        n == Len(lots)
        total == SumSeq(quantities)
        squares == SumSeq([i \in DOMAIN lots |-> quantities[i] * quantities[i]])
        \* n * n * QScale * QScale times the variance
        spread == n * squares - total * total
        sizes == {quantities[i] : i \in DOMAIN lots}
    IN IF lots = <<>> THEN SizingEmpty
       ELSE [avg_position_size_shares |->
                RoundFloat(10 * total, QScale * n, up),
             position_size_std_dev |->
                RoundSqrt(100 * spread, n * n * QScale * QScale, up),
             largest_position |-> RoundFloat(10 * SetMax(sizes), QScale, up),
             smallest_position |-> RoundFloat(10 * SetMin(sizes), QScale, up),
             sizing_consistency_score |->
                IF total = 0 \/ spread >= total * total THEN 0
                ELSE 1000 - RoundSqrt(1000000 * spread, total * total, ~up)]

\* calculate_risk_metrics: daily_records are the stored rows of the
\* account in date order; the lots are not read
RECURSIVE MaxDrawdown(_, _, _)
MaxDrawdown(cumulative_pnls, peak, max_drawdown) ==
    IF cumulative_pnls = <<>> THEN max_drawdown
    ELSE LET pnl == Head(cumulative_pnls)
             peak2 == IF pnl > peak THEN pnl ELSE peak
             drawdown == peak2 - pnl
         IN MaxDrawdown(Tail(cumulative_pnls), peak2,
                        IF drawdown > max_drawdown THEN drawdown
                        ELSE max_drawdown)

\* the walk started from a peak of zero instead of the first value
CalculateRiskMetricsPeakZero(lots, daily_records, up) ==
    LET cumulative_pnls ==
            [k \in DOMAIN daily_records |-> daily_records[k].cumulative_pnl]
        daily_pnls ==
            [k \in DOMAIN daily_records |-> daily_records[k].daily_pnl]
        n == Len(daily_records)
        total == SumSeq(daily_pnls)
        squares == SumSeq([k \in DOMAIN daily_pnls |->
                                daily_pnls[k] * daily_pnls[k]])
    IN IF daily_records = <<>>
       THEN [max_drawdown |-> 0, max_drawdown_pct |-> 0,
             daily_pnl_volatility |-> 0]
       ELSE [max_drawdown |-> MaxDrawdown(cumulative_pnls, 0, 0),
             daily_pnl_volatility |->
                RoundSqrt(n * squares - total * total, n * n, up)]

CalculateRiskMetrics(lots, daily_records, up) ==
    LET cumulative_pnls ==
            [k \in DOMAIN daily_records |-> daily_records[k].cumulative_pnl]
        daily_pnls ==
            [k \in DOMAIN daily_records |-> daily_records[k].daily_pnl]
        n == Len(daily_records)
        total == SumSeq(daily_pnls)
        squares == SumSeq([k \in DOMAIN daily_pnls |->
                                daily_pnls[k] * daily_pnls[k]])
    IN IF daily_records = <<>>
       THEN [max_drawdown |-> 0, max_drawdown_pct |-> 0,
             daily_pnl_volatility |-> 0]
       ELSE [max_drawdown |->
                MaxDrawdown(cumulative_pnls, cumulative_pnls[1], 0),
             daily_pnl_volatility |->
                RoundSqrt(n * squares - total * total, n * n, up)]

\* _get_empty_metrics
GetEmptyMetrics ==
    [avg_holding_time_minutes |-> 0, avg_holding_time_winners |-> 0,
     avg_holding_time_losers |-> 0, quick_flip_rate |-> 0,
     total_unique_symbols |-> 0, top_3_symbols |-> <<>>,
     top_3_trade_counts |-> <<>>, concentration_ratio |-> 0,
     leveraged_etf_pct |-> 0,
     current_streak |-> 0, longest_win_streak |-> 0,
     longest_loss_streak |-> 0,
     best_hour |-> "N/A", best_hour_avg_pnl |-> 0,
     worst_hour |-> "N/A", worst_hour_avg_pnl |-> 0,
     best_month |-> "N/A", best_month_avg_pnl |-> 0,
     worst_month |-> "N/A", worst_month_avg_pnl |-> 0,
     trades_per_day_avg |-> 0,
     avg_position_size_shares |-> 0, position_size_std_dev |-> 0,
     largest_position |-> 0, smallest_position |-> 0,
     sizing_consistency_score |-> 0,
     max_drawdown |-> 0, daily_pnl_volatility |-> 0]

\* calculate_all_enhanced_metrics: the six results merged into one dict
CalculateAllEnhancedMetrics(lots, daily_records, up) ==
    IF lots = <<>> THEN GetEmptyMetrics
    ELSE CalculateHoldingTimes(lots, up)
            @@ CalculateSymbolConcentration(lots, up)
            @@ CalculateStreaks(lots)
            @@ CalculateTimingPatterns(lots, up)
            @@ CalculatePositionSizing(lots, up)
            @@ CalculateRiskMetrics(lots, daily_records, up)

\* --------------------------------------------------------------- the state
VARIABLES
    pc,            \* the step reached: "idle", "matching", "returned", ...
    trades,        \* the part of the list process_trades has gone through
    long_queues,   \* FIFOEngine.long_queues
    short_queues,  \* FIFOEngine.short_queues
    closed_lots,   \* FIFOEngine.closed_lots / the lots handed to the builder
    fill_gaps,     \* argument of the last generate_daily_pnl_series call
    per_day_pnl,   \* its result
    aggregate,     \* result of the last calculate_aggregates call
    first_run,     \* outputs of the previous pipeline run over the same list
    enhanced,      \* result of the last extended-metrics call
    normalized_trades,  \* the uploaded trades of the running ingest request
    positions      \* result of the last get_open_positions call

vars ==
    <<pc, trades, long_queues, short_queues, closed_lots, fill_gaps,
      per_day_pnl, aggregate, first_run, enhanced, normalized_trades,
      positions>>

Engine ==
    [long_queues |-> long_queues, short_queues |-> short_queues,
     closed_lots |-> closed_lots]

\* execution time of the id-th trade of a list: the lists are sorted by
\* executed_at ascending, two trades share an instant, the instants are two
\* days apart at 04:00 UTC (23:00 of the day before in the reference
\* timezone)
ExecutedAt(id) == 48 * ((id - 1) \div 2) + 4

\* the trades that may follow ts in the list: any quantity and price for
\* the first symbol, one unit at the lowest price for the others
NextTrades(ts) ==
    {[id |-> Len(ts) + 1, symbol |-> "AAPL", side |-> d, quantity |-> q,
      price |-> p, executed_at |-> ExecutedAt(Len(ts) + 1)] :
        d \in Sides, q \in 1..MaxQty, p \in 1..MaxPrice}
    \cup
    {[id |-> Len(ts) + 1, symbol |-> s, side |-> d, quantity |-> 1,
      price |-> 1, executed_at |-> ExecutedAt(Len(ts) + 1)] :
        s \in Symbols \ {"AAPL"}, d \in Sides}

Init ==
    /\ pc = "idle"
    /\ trades = <<>>
    /\ long_queues = EmptyEngine.long_queues
    /\ short_queues = EmptyEngine.short_queues
    /\ closed_lots = EmptyEngine.closed_lots
    /\ fill_gaps = TRUE
    /\ per_day_pnl = <<>>
    /\ aggregate = None
    /\ first_run = None
    /\ enhanced = None
    /\ normalized_trades = <<>>
    /\ positions = None

SetEngine(engine) ==
    /\ long_queues' = engine.long_queues
    /\ short_queues' = engine.short_queues
    /\ closed_lots' = engine.closed_lots

\* process_trades is entered, on a new engine or on one used before
BeginProcessTrades ==
    /\ pc \in {"idle", "returned", "aggregated", "positions"}
    /\ pc' = "matching"
    /\ trades' = <<>>
    /\ SetEngine(ResetState(Engine))
    /\ per_day_pnl' = <<>>
    /\ aggregate' = None
    /\ first_run' = None
    /\ fill_gaps' = TRUE
    /\ positions' = None
    /\ UNCHANGED <<enhanced, normalized_trades>>

\* one iteration of "for trade in trades"
ProcessNextTrade ==
    /\ pc = "matching"
    /\ Len(trades) < MaxTrades
    /\ \E trade \in NextTrades(trades) :
        /\ trades' = Append(trades, trade)
        /\ SetEngine(ProcessTrade(Engine, trade))
    /\ UNCHANGED <<pc, fill_gaps, per_day_pnl, aggregate, first_run, enhanced,
                   normalized_trades,
                   positions>>

\* "return self.closed_lots"
ReturnClosedLots ==
    /\ pc = "matching"
    /\ pc' = "returned"
    /\ UNCHANGED <<trades, long_queues, short_queues, closed_lots, fill_gaps,
                   per_day_pnl, aggregate, first_run, enhanced,
                   normalized_trades,
                   positions>>

\* the caller builds the daily series of the returned lots
GenerateSeries(fg) ==
    /\ pc = "returned"
    /\ pc' = "series"
    /\ fill_gaps' = fg
    /\ per_day_pnl' = GenerateDailyPnlSeries(closed_lots, fg)
    /\ UNCHANGED <<trades, long_queues, short_queues, closed_lots, aggregate,
                   first_run, enhanced, normalized_trades,
                   positions>>

\* the caller builds the aggregate of the lots and the series
BuildAggregate ==
    /\ pc = "series"
    /\ pc' = "aggregated"
    /\ aggregate' = Some(CalculateAggregates(closed_lots, per_day_pnl))
    /\ UNCHANGED <<trades, long_queues, short_queues, closed_lots, fill_gaps,
                   per_day_pnl, first_run, enhanced, normalized_trades,
                   positions>>

\* a second run of the whole chain: the same engine processes the same list
\* again as one call, then the caller builds the series with the same
\* fill_gaps and the aggregate; the results of the first run are kept aside
ProcessTradesAgain ==
    /\ pc = "aggregated"
    /\ first_run = None
    /\ first_run' = Some([trades |-> trades, closed_lots |-> closed_lots,
                          per_day_pnl |-> per_day_pnl,
                          aggregate |-> aggregate])
    /\ LET engine == ProcessTrades(Engine, trades)
           rows == GenerateDailyPnlSeries(engine.closed_lots, fill_gaps)
       IN  /\ SetEngine(engine)
           /\ per_day_pnl' = rows
           /\ aggregate' = Some(CalculateAggregates(engine.closed_lots, rows))
    /\ pc' = "aggregated"
    /\ UNCHANGED <<trades, fill_gaps, enhanced, normalized_trades,
                   positions>>

\* "return self.closed_lots": the caller receives the engine's own list, not
\* a copy, so the contents of a returned sequence are at any time those of
\* the engine's list
ReturnedLots == closed_lots

\* get_open_positions on the engine process_trades has returned from; the
\* caller holds the snapshot until it starts the next run
GetOpenPositionsCall ==
    /\ pc = "returned"
    /\ pc' = "positions"
    /\ positions' = Some(GetOpenPositions(Engine))
    /\ UNCHANGED <<trades, long_queues, short_queues, closed_lots, fill_gaps,
                   per_day_pnl, aggregate, first_run, enhanced,
                   normalized_trades>>

\* the engine alone
Next ==
    \/ BeginProcessTrades
    \/ ProcessNextTrade
    \/ ReturnClosedLots

Spec == Init /\ [][Next]_vars

\* the engine on trades of whole numbers of shares
WholeShareTrades(ts) ==
    {[t EXCEPT !.quantity = QScale * t.quantity] : t \in NextTrades(ts)}

ProcessNextWholeTrade ==
    /\ pc = "matching"
    /\ Len(trades) < MaxTrades
    /\ \E trade \in WholeShareTrades(trades) :
        /\ trades' = Append(trades, trade)
        /\ SetEngine(ProcessTrade(Engine, trade))
    /\ UNCHANGED <<pc, fill_gaps, per_day_pnl, aggregate, first_run, enhanced,
                   normalized_trades, positions>>

WholeNext ==
    \/ BeginProcessTrades
    \/ ProcessNextWholeTrade
    \/ ReturnClosedLots

SpecWholeShares == Init /\ [][WholeNext]_vars

\* the engine and the snapshot of its open positions
PositionsNext ==
    \/ BeginProcessTrades
    \/ ProcessNextTrade
    \/ ReturnClosedLots
    \/ GetOpenPositionsCall

SpecPositions == Init /\ [][PositionsNext]_vars

\* the engine followed by the two builders, as the callers chain them
PipelineNext ==
    \/ BeginProcessTrades
    \/ ProcessNextTrade
    \/ ReturnClosedLots
    \/ \E fg \in BOOLEAN : GenerateSeries(fg)
    \/ BuildAggregate
    \/ ProcessTradesAgain

SpecPipeline == Init /\ [][PipelineNext]_vars

\* ------------------------------------- the builder on arbitrary closed lots
\* close times, 28 hours apart from 04:00 UTC on: 23:00 of the day before,
\* then 03:00 a day later, 07:00 the day after, ... in the reference timezone
CloseTimes == {28 * d + 4 : d \in 0..MaxDay}

\* a lot of one share opened at MaxPnl + 1 cents
InputLots ==
    {[symbol |-> "AAPL", position_type |-> "LONG",
      open_trade_id |-> 1, open_quantity |-> QScale,
      open_price |-> MaxPnl + 1, open_executed_at |-> 0,
      close_trade_id |-> 2, close_quantity |-> QScale,
      close_price |-> MaxPnl + 1 + pnl, close_executed_at |-> t,
      realized_pnl |-> pnl] :
        pnl \in (-MaxPnl)..MaxPnl, t \in CloseTimes}

\* the engine appends the lots in the order of the closing trades, which
\* arrive sorted by executed_at
InputLotLists ==
    UNION {{lots \in [1..n -> InputLots] :
                \A i \in 1..(n - 1) :
                    lots[i].close_executed_at <= lots[i + 1].close_executed_at} :
           n \in 0..MaxLots}

MetricsInit ==
    /\ pc = "returned"
    /\ trades = <<>>
    /\ long_queues = EmptyEngine.long_queues
    /\ short_queues = EmptyEngine.short_queues
    /\ closed_lots \in InputLotLists
    /\ fill_gaps = TRUE
    /\ per_day_pnl = <<>>
    /\ aggregate = None
    /\ first_run = None
    /\ enhanced = None
    /\ normalized_trades = <<>>
    /\ positions = None

MetricsNext ==
    \/ \E fg \in BOOLEAN : GenerateSeries(fg)
    \/ BuildAggregate

SpecMetrics == MetricsInit /\ [][MetricsNext]_vars

\* --------------------------------- the builder on lots of several symbols
\* a lot of one share of either symbol, closed at the first close time
SymbolLots ==
    {[symbol |-> sym, position_type |-> "LONG",
      open_trade_id |-> 1, open_quantity |-> QScale,
      open_price |-> MaxPnl + 1, open_executed_at |-> 0,
      close_trade_id |-> 2, close_quantity |-> QScale,
      close_price |-> MaxPnl + 1 + pnl, close_executed_at |-> 4,
      realized_pnl |-> pnl] :
        sym \in Symbols, pnl \in (-MaxPnl)..MaxPnl}

SymbolLotLists == UNION {[1..n -> SymbolLots] : n \in 0..MaxLots}

SymbolMetricsInit ==
    /\ pc = "returned"
    /\ trades = <<>>
    /\ long_queues = EmptyEngine.long_queues
    /\ short_queues = EmptyEngine.short_queues
    /\ closed_lots \in SymbolLotLists
    /\ fill_gaps = TRUE
    /\ per_day_pnl = <<>>
    /\ aggregate = None
    /\ first_run = None
    /\ enhanced = None
    /\ normalized_trades = <<>>
    /\ positions = None

SpecSymbolMetrics == SymbolMetricsInit /\ [][MetricsNext]_vars

\* ------------------------------------- the extended metrics on stored lots
\* a win of MaxPnl cents, a loss of one cent or a breakeven lot
EnhancedLots == {lot \in InputLots : lot.realized_pnl \in {-1, 0, MaxPnl}}

\* the lots of the account as the query returns them, in any order
EnhancedLotLists == UNION {[1..n -> EnhancedLots] : n \in 0..MaxLots}

\* the stored daily rows of the account: those of the stored lots, none
\* (the lots are committed before the rows), or, next to no lots, the rows
\* an earlier run has left
StoredSeries(lots) ==
    IF lots = <<>>
    THEN {GenerateDailyPnlSeries(l, TRUE) : l \in EnhancedLotLists}
    ELSE {<<>>, GenerateDailyPnlSeries(lots, TRUE)}

EnhancedInit ==
    /\ pc = "lots"
    /\ trades = <<>>
    /\ long_queues = EmptyEngine.long_queues
    /\ short_queues = EmptyEngine.short_queues
    /\ closed_lots \in EnhancedLotLists
    /\ fill_gaps = TRUE
    /\ per_day_pnl \in StoredSeries(closed_lots)
    /\ aggregate = None
    /\ first_run = None
    /\ enhanced = None
    /\ normalized_trades = <<>>
    /\ positions = None

\* one call of an extended-metrics method on the stored lots
EnhancedCall(method, result) ==
    /\ pc = "lots"
    /\ pc' = method
    /\ enhanced' = Some(result)
    /\ UNCHANGED <<trades, long_queues, short_queues, closed_lots, fill_gaps,
                   per_day_pnl, aggregate, first_run, normalized_trades,
                   positions>>

HoldingTimes ==
    \E up \in BOOLEAN :
        EnhancedCall("holding_times", CalculateHoldingTimes(closed_lots, up))

SymbolConcentration ==
    \E up \in BOOLEAN :
        EnhancedCall("symbol_concentration",
                     CalculateSymbolConcentration(closed_lots, up))

Streaks == EnhancedCall("streaks", CalculateStreaks(closed_lots))

TimingPatterns ==
    \E up \in BOOLEAN :
        EnhancedCall("timing_patterns",
                     CalculateTimingPatterns(closed_lots, up))

PositionSizing ==
    \E up \in BOOLEAN :
        EnhancedCall("position_sizing",
                     CalculatePositionSizing(closed_lots, up))

RiskMetrics ==
    \E up \in BOOLEAN :
        EnhancedCall("risk_metrics",
                     CalculateRiskMetrics(closed_lots, per_day_pnl, up))

AllEnhancedMetrics ==
    \E up \in BOOLEAN :
        EnhancedCall("all_enhanced_metrics",
                     CalculateAllEnhancedMetrics(closed_lots, per_day_pnl,
                                                 up))

EnhancedNext ==
    \/ HoldingTimes
    \/ SymbolConcentration
    \/ Streaks
    \/ TimingPatterns
    \/ PositionSizing
    \/ RiskMetrics
    \/ AllEnhancedMetrics

SpecEnhanced == EnhancedInit /\ [][EnhancedNext]_vars

\* ------------------------------------ the builder on lots in any order
\* generate_daily_pnl_series takes the lots in whatever order the caller
\* holds them
SeriesInit ==
    /\ pc = "returned"
    /\ trades = <<>>
    /\ long_queues = EmptyEngine.long_queues
    /\ short_queues = EmptyEngine.short_queues
    /\ closed_lots \in EnhancedLotLists
    /\ fill_gaps = TRUE
    /\ per_day_pnl = <<>>
    /\ aggregate = None
    /\ first_run = None
    /\ enhanced = None
    /\ normalized_trades = <<>>
    /\ positions = None

SpecSeries == SeriesInit /\ [][MetricsNext]_vars

\* ------------------- the builder on lots of several symbols and weekdays
\* a win, a loss or a breakeven lot of one share: the first symbol closed at
\* any close time, the others at the last one; in any order
TieLots ==
    {lot \in {[l EXCEPT !.symbol = sym] : l \in EnhancedLots,
                                          sym \in Symbols} :
        lot.symbol = "AAPL" \/ lot.close_executed_at = 28 * MaxDay + 4}

TieLotLists == UNION {[1..n -> TieLots] : n \in 0..MaxLots}

TieInit ==
    /\ pc = "returned"
    /\ trades = <<>>
    /\ long_queues = EmptyEngine.long_queues
    /\ short_queues = EmptyEngine.short_queues
    /\ closed_lots \in TieLotLists
    /\ fill_gaps = TRUE
    /\ per_day_pnl = <<>>
    /\ aggregate = None
    /\ first_run = None
    /\ enhanced = None
    /\ normalized_trades = <<>>
    /\ positions = None

SpecTies == TieInit /\ [][MetricsNext]_vars

\* ------------------------------------------- the two endpoints of an account
\* In this specification trades, closed_lots, per_day_pnl and aggregate are
\* the stored rows of one account; every request works with an engine of
\* its own, which is gone when the request ends.  A trade's id is its
\* position among the stored trades.
\*
\* the uploads that may follow the stored trades ts: one or two trades
Uploads(ts) ==
    {<<t>> : t \in NextTrades(ts)}
    \cup UNION {{<<t, u>> : u \in NextTrades(Append(ts, t))} :
                    t \in NextTrades(ts)}

AccountInit ==
    /\ pc = "account"
    /\ trades = <<>>
    /\ long_queues = EmptyEngine.long_queues
    /\ short_queues = EmptyEngine.short_queues
    /\ closed_lots = <<>>
    /\ fill_gaps = TRUE
    /\ per_day_pnl = <<>>
    /\ aggregate = None
    /\ first_run = None
    /\ enhanced = None
    /\ normalized_trades = <<>>
    /\ positions = None

\* ingest: the parsed trades are stored and committed
IngestSaveTrades ==
    /\ pc = "account"
    /\ \E upload \in Uploads(trades) :
        /\ Len(trades) + Len(upload) <= MaxTrades
        /\ trades' = trades \o upload
        /\ normalized_trades' = upload
    /\ pc' = "trades_saved"
    /\ UNCHANGED <<long_queues, short_queues, closed_lots, fill_gaps,
                   per_day_pnl, aggregate, first_run, enhanced, positions>>

\* ingest: a new engine processes normalized_trades; the stored lots of the
\* account are replaced by the result and committed
IngestSaveLots ==
    /\ pc = "trades_saved"
    /\ pc' = "lots_saved"
    /\ closed_lots' = ProcessTrades(EmptyEngine, normalized_trades).closed_lots
    /\ UNCHANGED <<trades, long_queues, short_queues, fill_gaps, per_day_pnl,
                   aggregate, first_run, enhanced, normalized_trades,
                   positions>>

\* ingest: series and aggregate of these lots replace the stored ones
IngestSaveMetrics ==
    /\ pc = "lots_saved"
    /\ pc' = "account"
    /\ per_day_pnl' = GenerateDailyPnlSeries(closed_lots, TRUE)
    /\ aggregate' =
            Some(CalculateAggregates(closed_lots,
                                     GenerateDailyPnlSeries(closed_lots,
                                                            TRUE)))
    /\ normalized_trades' = <<>>
    /\ UNCHANGED <<trades, long_queues, short_queues, closed_lots, fill_gaps,
                   first_run, enhanced, positions>>

\* ingest: an exception after the trades or after the lots were committed;
\* the rollback undoes nothing that was committed and the request ends
IngestFails ==
    /\ pc \in {"trades_saved", "lots_saved"}
    /\ pc' = "account"
    /\ normalized_trades' = <<>>
    /\ UNCHANGED <<trades, long_queues, short_queues, closed_lots, fill_gaps,
                   per_day_pnl, aggregate, first_run, enhanced, positions>>

\* query(NormalizedTrade).order_by(executed_at): the stored trades in an
\* ascending order of execution time; the order among trades of one
\* instant is the database's choice
AscendingOrders(ts) ==
    {[i \in DOMAIN ts |-> ts[p[i]]] :
        p \in {q \in Permutations(DOMAIN ts) :
                    \A i, j \in DOMAIN ts :
                        i < j => ts[q[i]].executed_at <= ts[q[j]].executed_at}}

\* metrics/process: all stored trades of the account, lots, series and
\* aggregate replaced in one commit; nothing is done without trades
ProcessStoredTrades ==
    /\ pc = "account"
    /\ trades # <<>>
    /\ \E ordered \in AscendingOrders(trades) :
        LET lots == ProcessTrades(EmptyEngine, ordered).closed_lots
            rows == GenerateDailyPnlSeries(lots, TRUE)
        IN /\ closed_lots' = lots
           /\ per_day_pnl' = rows
           /\ aggregate' = Some(CalculateAggregates(lots, rows))
    /\ UNCHANGED <<pc, trades, long_queues, short_queues, fill_gaps,
                   first_run, enhanced, normalized_trades,
                   positions>>

AccountNext ==
    \/ IngestSaveTrades
    \/ IngestSaveLots
    \/ IngestSaveMetrics
    \/ IngestFails
    \/ ProcessStoredTrades

SpecAccount == AccountInit /\ [][AccountNext]_vars

\* ------------------------------------------------------------ properties
Lots == DOMAIN closed_lots

\* the queue a lot of the given symbol and position type was opened in
QueueOf(symbol, position_type) ==
    IF position_type = "LONG" THEN long_queues[symbol]
    ELSE short_queues[symbol]

PositionTypes == {"LONG", "SHORT"}

\* C1: FIFO order.  Trade ids count the order of arrival, so an entry is
\* older than another one when its trade id is smaller.  Within one queue
\* (symbol and position type) the lots are taken from the entries in
\* ascending order of arrival, every entry still waiting is at least as old
\* as no consumed one (a lot is never taken from an entry while an older
\* entry of that queue still has quantity left), only the head of a queue
\* can be partly consumed, and the waiting entries are kept oldest first.
C1_FifoOrder ==
    /\ \A i, j \in Lots :
        (/\ i < j
         /\ closed_lots[i].symbol = closed_lots[j].symbol
         /\ closed_lots[i].position_type = closed_lots[j].position_type)
        => closed_lots[i].open_trade_id <= closed_lots[j].open_trade_id
    /\ \A i \in Lots :
        LET queue == QueueOf(closed_lots[i].symbol,
                             closed_lots[i].position_type)
        IN \A k \in DOMAIN queue :
            /\ closed_lots[i].open_trade_id <= queue[k].trade.id
            /\ closed_lots[i].open_trade_id = queue[k].trade.id => k = 1
    /\ \A s \in Symbols, y \in PositionTypes :
        \A k, m \in DOMAIN QueueOf(s, y) :
            k < m => QueueOf(s, y)[k].trade.id < QueueOf(s, y)[m].trade.id

\* C1 witness: one closing trade has consumed two entries, the older first
C1_Witness ==
    \E i, j \in Lots :
        /\ j = i + 1
        /\ closed_lots[i].close_trade_id = closed_lots[j].close_trade_id
        /\ closed_lots[i].open_trade_id < closed_lots[j].open_trade_id

\* p is e/d rounded to the nearest integer, ties away from zero
IsHalfUp(p, e, d) ==
    /\ 2 * Abs(p * d - e) <= d
    /\ 2 * Abs(p * d - e) = d => Abs(p * d) > Abs(e)

\* the unrounded P&L of a lot, from the trades its ids name (cents/QScale)
ExactPnl(lot) ==
    LET open == trades[lot.open_trade_id]
        close == trades[lot.close_trade_id]
    IN IF lot.position_type = "LONG"
       THEN (close.price - open.price) * lot.open_quantity
       ELSE (open.price - close.price) * lot.open_quantity

\* the lots of a two-trade list on a new engine
TwoTradeLots(side1, qty1, price1, side2, qty2, price2) ==
    ProcessTrades(EmptyEngine,
        <<[id |-> 1, symbol |-> "AAPL", side |-> side1, quantity |-> qty1,
           price |-> price1, executed_at |-> 0],
          [id |-> 2, symbol |-> "AAPL", side |-> side2, quantity |-> qty2,
           price |-> price2, executed_at |-> 24]>>).closed_lots

\* C2: every lot's realized P&L is (close price - open price) * matched
\* quantity for a LONG lot and (open price - close price) * matched quantity
\* for a SHORT lot, rounded once, half-up, to cents; the three examples of
\* the specification give 1000.00, 1000.00 and 1.02.
C2_RealizedPnl ==
    /\ \A i \in Lots :
        /\ closed_lots[i].open_price
                = trades[closed_lots[i].open_trade_id].price
        /\ closed_lots[i].close_price
                = trades[closed_lots[i].close_trade_id].price
        /\ IsHalfUp(closed_lots[i].realized_pnl, ExactPnl(closed_lots[i]),
                    QScale)
    /\ LET long == TwoTradeLots("BUY", 100 * QScale, 15000,
                                "SELL", 100 * QScale, 16000)
           short == TwoTradeLots("SELL", 100 * QScale, 16000,
                                 "BUY", 100 * QScale, 15000)
           cents == TwoTradeLots("BUY", 3 * QScale, 10033,
                                 "SELL", 3 * QScale, 10067)
       IN /\ Len(long) = 1 /\ long[1].position_type = "LONG"
          /\ long[1].realized_pnl = 100000
          /\ Len(short) = 1 /\ short[1].position_type = "SHORT"
          /\ short[1].realized_pnl = 100000
          /\ Len(cents) = 1 /\ cents[1].realized_pnl = 102

\* C2 witness: a SHORT lot and a LONG lot whose exact P&L is not a whole
\* number of cents, one of them a loss
C2_Witness ==
    /\ \E i \in Lots :
        /\ closed_lots[i].position_type = "SHORT"
        /\ ExactPnl(closed_lots[i]) % QScale # 0
        /\ ExactPnl(closed_lots[i]) < 0
    /\ \E i \in Lots :
        /\ closed_lots[i].position_type = "LONG"
        /\ ExactPnl(closed_lots[i]) % QScale # 0

\* the trade a ProcessNextTrade step processes
NewTrade == trades'[Len(trades')]

OpposingType(trade) == IF trade.side = "BUY" THEN "SHORT" ELSE "LONG"

\* C3: partial fill.  A step that processes a trade whose quantity is
\* smaller than the remaining quantity of the head entry of the opposing
\* queue appends exactly one lot, of the trade's quantity on both sides;
\* the entry stays at the head with the difference and its trade (and so
\* its open price); the trade opens no entry of its own.
C3_PartialFill ==
    [][(/\ pc = "matching"
        /\ Len(trades') = Len(trades) + 1
        /\ QueueOf(NewTrade.symbol, OpposingType(NewTrade)) # <<>>
        /\ NewTrade.quantity
            < QueueOf(NewTrade.symbol, OpposingType(NewTrade))[1].qty)
       => LET queue == QueueOf(NewTrade.symbol, OpposingType(NewTrade))
              lot == closed_lots'[Len(closed_lots')]
          IN /\ Len(closed_lots') = Len(closed_lots) + 1
             /\ SubSeq(closed_lots', 1, Len(closed_lots)) = closed_lots
             /\ lot.open_quantity = NewTrade.quantity
             /\ lot.close_quantity = NewTrade.quantity
             /\ lot.open_trade_id = queue[1].trade.id
             /\ lot.close_trade_id = NewTrade.id
             /\ lot.open_price = queue[1].trade.price
             /\ (IF NewTrade.side = "BUY" THEN short_queues'
                 ELSE long_queues')
                    = [(IF NewTrade.side = "BUY" THEN short_queues
                        ELSE long_queues)
                       EXCEPT ![NewTrade.symbol] =
                           <<[trade |-> queue[1].trade,
                              qty |-> queue[1].qty - NewTrade.quantity]>>
                               \o Tail(queue)]
             /\ (IF NewTrade.side = "BUY" THEN long_queues' = long_queues
                 ELSE short_queues' = short_queues)]_vars

\* C3 witness: the last lot took the whole of its closing trade and only a
\* part of its opening entry, which is still the head of its queue, and
\* the closing trade has no entry
C3_Witness ==
    /\ closed_lots # <<>>
    /\ LET lot == closed_lots[Len(closed_lots)]
           queue == QueueOf(lot.symbol, lot.position_type)
       IN /\ lot.close_trade_id = Len(trades)
          /\ lot.close_quantity = trades[Len(trades)].quantity
          /\ queue # <<>>
          /\ queue[1].trade.id = lot.open_trade_id
          /\ queue[1].qty + lot.open_quantity
                = trades[lot.open_trade_id].quantity
          /\ \A s \in Symbols, y \in PositionTypes :
                \A k \in DOMAIN QueueOf(s, y) :
                    QueueOf(s, y)[k].trade.id # Len(trades)

\* C4: every lot has a positive matched quantity, does not close before it
\* opens, and its opening trade comes strictly before its closing trade in
\* the list (the lists are sorted by execution time, quantities positive).
C4_LotInvariant ==
    \A i \in Lots :
        /\ closed_lots[i].open_quantity > 0
        /\ closed_lots[i].close_quantity > 0
        /\ closed_lots[i].open_executed_at <= closed_lots[i].close_executed_at
        /\ closed_lots[i].open_trade_id < closed_lots[i].close_trade_id
        /\ closed_lots[i].close_trade_id <= Len(trades)
        /\ closed_lots[i].open_executed_at
                = trades[closed_lots[i].open_trade_id].executed_at
        /\ closed_lots[i].close_executed_at
                = trades[closed_lots[i].close_trade_id].executed_at

\* C4 witness: a lot closed at the time it was opened, and one closed later
C4_Witness ==
    /\ \E i \in Lots :
        closed_lots[i].open_executed_at = closed_lots[i].close_executed_at
    /\ \E i \in Lots :
        closed_lots[i].open_executed_at < closed_lots[i].close_executed_at

\* the sum of the lots' realized P&L, in list order
LotPnlSum(lots) == SumSeq([i \in DOMAIN lots |-> lots[i].realized_pnl])

SeriesBuilt == pc \in {"series", "aggregated"}

\* C5: in the returned series the first row's cumulative P&L is its daily
\* P&L, every later row's cumulative P&L is the previous row's plus its own
\* daily P&L, and the last row's cumulative P&L is the sum of the realized
\* P&L of all input lots (fill_gaps true or false).
C5_Cumulative ==
    (SeriesBuilt /\ closed_lots # <<>>)
    => /\ per_day_pnl # <<>>
       /\ per_day_pnl[1].cumulative_pnl = per_day_pnl[1].daily_pnl
       /\ \A i \in 2..Len(per_day_pnl) :
            per_day_pnl[i].cumulative_pnl
                = per_day_pnl[i - 1].cumulative_pnl + per_day_pnl[i].daily_pnl
       /\ per_day_pnl[Len(per_day_pnl)].cumulative_pnl
            = LotPnlSum(closed_lots)

\* C5 witness: a series of three rows that ends at a total different from
\* its last daily P&L
C5_Witness ==
    /\ pc = "series"
    /\ Len(per_day_pnl) >= 3
    /\ per_day_pnl[1].daily_pnl # 0
    /\ per_day_pnl[Len(per_day_pnl)].daily_pnl # 0
    /\ per_day_pnl[Len(per_day_pnl)].cumulative_pnl
            # per_day_pnl[Len(per_day_pnl)].daily_pnl

\* the reference-timezone dates on which a lot closed
CloseDates ==
    {EstDate(closed_lots[i].close_executed_at) : i \in Lots}

\* C6: with fill_gaps the series has one row for every date from the first
\* to the last close date, in order, and a date without a closed lot has
\* daily P&L 0, no lots and the cumulative P&L of the row before; without
\* fill_gaps the rows are the dates with a closed lot, each with
\* lots_closed >= 1.
C6_GapFilling ==
    (SeriesBuilt /\ closed_lots # <<>>)
    => LET lo == CHOOSE d \in CloseDates : \A e \in CloseDates : d <= e
           hi == CHOOSE d \in CloseDates : \A e \in CloseDates : e <= d
       IN IF fill_gaps
          THEN /\ Len(per_day_pnl) = hi - lo + 1
               /\ \A i \in DOMAIN per_day_pnl :
                    /\ per_day_pnl[i].date = lo + i - 1
                    /\ per_day_pnl[i].date \notin CloseDates
                        => /\ per_day_pnl[i].daily_pnl = 0
                           /\ per_day_pnl[i].lots_closed = 0
                           /\ i > 1
                           /\ per_day_pnl[i].cumulative_pnl
                                = per_day_pnl[i - 1].cumulative_pnl
          ELSE /\ Len(per_day_pnl) = Cardinality(CloseDates)
               /\ {per_day_pnl[i].date : i \in DOMAIN per_day_pnl}
                    = CloseDates
               /\ \A i \in DOMAIN per_day_pnl :
                    per_day_pnl[i].lots_closed >= 1

\* C6 witness: a gap-filled series with a row for a date without lots
\* after a row with a non-zero cumulative P&L
C6_Witness ==
    /\ pc = "series"
    /\ fill_gaps
    /\ \E i \in DOMAIN per_day_pnl :
        /\ per_day_pnl[i].lots_closed = 0
        /\ per_day_pnl[i].cumulative_pnl # 0

\* the aggregate record, once built
Agg == aggregate[1]

Winners == {i \in Lots : closed_lots[i].realized_pnl > 0}

Losers == {i \in Lots : closed_lots[i].realized_pnl < 0}

\* C7: for a non-empty lot list the aggregate's total_realized_pnl is the
\* sum of the lots' realized P&L and its win_rate is winning_lots /
\* total_lots_closed rounded to 4 decimals, 0.0000 when no lot wins.
C7_AggregateConsistency ==
    (pc = "aggregated" /\ closed_lots # <<>>)
    => /\ Agg.total_realized_pnl = LotPnlSum(closed_lots)
       /\ Agg.winning_lots = Cardinality(Winners)
       /\ Agg.total_lots_closed = Len(closed_lots)
       /\ Agg.win_rate
            = Some(Quantize(Cardinality(Winners) * 10000, Len(closed_lots)))

\* C8: for a non-empty lot list profit_factor is absent when the losing
\* lots' total is zero, and total_gains / |total_losses| rounded half-up to
\* 2 decimals whenever that total is not zero.
C8_ProfitFactor ==
    (pc = "aggregated" /\ closed_lots # <<>>)
    => LET gains == SumPnl(closed_lots, Winners)
           losses == SumPnl(closed_lots, Losers)
       IN IF losses = 0
          THEN Agg.profit_factor = None
          ELSE Agg.profit_factor = Some(Quantize(gains * 100, Abs(losses)))

\* C9: the engine's lots and queues are those of a new engine processing
\* the trades of the current call, whatever the engine processed before;
\* a second run of engine, series builder and aggregate builder over the
\* same list gives the closed lots, daily rows and aggregate of the first.
C9_RunScoped ==
    /\ Engine = ProcessAll(EmptyEngine, trades)
    /\ first_run # None
        => /\ first_run[1].trades = trades
           /\ closed_lots = first_run[1].closed_lots
           /\ SeriesBuilt => per_day_pnl = first_run[1].per_day_pnl
           /\ pc = "aggregated" => aggregate = first_run[1].aggregate

\* C9 witness: a second run that has produced lots, open entries, daily
\* rows and an aggregate
C9_Witness ==
    /\ pc = "aggregated"
    /\ first_run # None
    /\ closed_lots # <<>>
    /\ \E s \in Symbols : long_queues[s] # <<>> \/ short_queues[s] # <<>>
    /\ per_day_pnl # <<>>

LotSymbols == {closed_lots[i].symbol : i \in Lots}

SymbolSum(sym) ==
    SumPnl(closed_lots, {i \in Lots : closed_lots[i].symbol = sym})

\* C11: for a non-empty lot list best_symbol is a symbol of the lots whose
\* summed realized P&L is maximal, worst_symbol one whose sum is minimal,
\* and best_symbol_pnl / worst_symbol_pnl are present and equal to that
\* symbol's sum.
C11_BestWorstSymbol ==
    (pc = "aggregated" /\ closed_lots # <<>>)
    => /\ Agg.best_symbol # None
       /\ Agg.worst_symbol # None
       /\ Agg.best_symbol[1] \in LotSymbols
       /\ Agg.worst_symbol[1] \in LotSymbols
       /\ \A sym \in LotSymbols :
            /\ SymbolSum(sym) <= SymbolSum(Agg.best_symbol[1])
            /\ SymbolSum(Agg.worst_symbol[1]) <= SymbolSum(sym)
       /\ Agg.best_symbol_pnl = Some(SymbolSum(Agg.best_symbol[1]))
       /\ Agg.worst_symbol_pnl = Some(SymbolSum(Agg.worst_symbol[1]))

\* the date of an instant in the reference timezone, five hours behind UTC
LocalDay(t) ==
    CHOOSE d \in -1..(2 * MaxDay + 2) :
        24 * d <= t - EstOffsetHours /\ t - EstOffsetHours < 24 * (d + 1)

\* the weekday of a lot: that of the local date of its close (day 0 is a
\* Monday), and a weekday's summed realized P&L
LotWeekday(i) ==
    WeekdayNames[(LocalDay(closed_lots[i].close_executed_at) % 7) + 1]

LotWeekdays == {LotWeekday(i) : i \in Lots}

WeekdaySum(w) == SumPnl(closed_lots, {i \in Lots : LotWeekday(i) = w})

\* C12: every lot counts under the weekday of the local date of its close,
\* the date of the row of the daily series that counts it; best_weekday /
\* worst_weekday is a weekday of maximal / minimal summed P&L and
\* best_weekday_pnl / worst_weekday_pnl is that weekday's sum.
C12_BestWorstWeekday ==
    (pc = "aggregated" /\ closed_lots # <<>>)
    => /\ \A i \in Lots :
            \E k \in DOMAIN per_day_pnl :
                /\ per_day_pnl[k].date
                        = LocalDay(closed_lots[i].close_executed_at)
                /\ per_day_pnl[k].lots_closed >= 1
       /\ Agg.best_weekday # None
       /\ Agg.worst_weekday # None
       /\ Agg.best_weekday[1] \in LotWeekdays
       /\ Agg.worst_weekday[1] \in LotWeekdays
       /\ \A w \in LotWeekdays :
            /\ WeekdaySum(w) <= WeekdaySum(Agg.best_weekday[1])
            /\ WeekdaySum(Agg.worst_weekday[1]) <= WeekdaySum(w)
       /\ Agg.best_weekday_pnl = Some(WeekdaySum(Agg.best_weekday[1]))
       /\ Agg.worst_weekday_pnl = Some(WeekdaySum(Agg.worst_weekday[1]))

\* the result of the last extended-metrics call
Enh == enhanced[1]

\* the lots in ascending close-time order, input order among equal times
RECURSIVE ByCloseTime(_)
ByCloseTime(idx) ==
    IF idx = {} THEN <<>>
    ELSE LET i == CHOOSE j \in idx :
                    \A k \in idx :
                        \/ closed_lots[j].close_executed_at
                                < closed_lots[k].close_executed_at
                        \/ /\ closed_lots[j].close_executed_at
                                = closed_lots[k].close_executed_at
                           /\ j <= k
         IN <<closed_lots[i].realized_pnl>> \o ByCloseTime(idx \ {i})

\* the length of the run of lots of one sign (1 winning, -1 losing) at the
\* end of the walk w
RECURSIVE RunAtEnd(_, _)
RunAtEnd(w, sign) ==
    IF w = <<>> \/ w[Len(w)] * sign <= 0 THEN 0
    ELSE 1 + RunAtEnd(SubSeq(w, 1, Len(w) - 1), sign)

\* C13: walking the lots in close-time order, current_streak is +k when
\* the walk ends in k winning lots, -k when it ends in k losing lots, and 0
\* when the last lot is breakeven.
C13_CurrentStreak ==
    pc = "streaks"
    => LET w == ByCloseTime(Lots)
       IN Enh.current_streak = RunAtEnd(w, 1) - RunAtEnd(w, -1)

\* the fields of the combined result, by kind
NumberFields ==
    {"avg_holding_time_minutes", "avg_holding_time_winners",
     "avg_holding_time_losers", "quick_flip_rate", "total_unique_symbols",
     "concentration_ratio", "leveraged_etf_pct", "current_streak",
     "longest_win_streak", "longest_loss_streak", "best_hour_avg_pnl",
     "worst_hour_avg_pnl", "best_month_avg_pnl", "worst_month_avg_pnl",
     "trades_per_day_avg", "avg_position_size_shares",
     "position_size_std_dev", "largest_position", "smallest_position",
     "sizing_consistency_score", "max_drawdown", "max_drawdown_pct",
     "daily_pnl_volatility"}

ListFields == {"top_3_symbols", "top_3_trade_counts"}

MonthFields == {"best_month", "worst_month"}

HourFields == {"best_hour", "worst_hour"}

\* every number of the result is 0, every list empty, every month "N/A";
\* an hour is the given label
AllZero(result, hour) ==
    \A f \in DOMAIN result :
        /\ f \in NumberFields => result[f] = 0
        /\ f \in ListFields => result[f] = <<>>
        /\ f \in MonthFields => result[f] = "N/A"
        /\ f \in HourFields => result[f] = hour

\* the fields each method reports
FieldsOf(method) ==
    CASE method = "holding_times" ->
            {"avg_holding_time_minutes", "avg_holding_time_winners",
             "avg_holding_time_losers", "quick_flip_rate"}
      [] method = "symbol_concentration" ->
            {"total_unique_symbols", "top_3_symbols", "top_3_trade_counts",
             "concentration_ratio", "leveraged_etf_pct"}
      [] method = "streaks" ->
            {"current_streak", "longest_win_streak", "longest_loss_streak"}
      [] method = "timing_patterns" ->
            {"best_hour", "best_hour_avg_pnl", "worst_hour",
             "worst_hour_avg_pnl", "best_month", "best_month_avg_pnl",
             "worst_month", "worst_month_avg_pnl", "trades_per_day_avg"}
      [] method = "position_sizing" ->
            {"avg_position_size_shares", "position_size_std_dev",
             "largest_position", "smallest_position",
             "sizing_consistency_score"}
      [] method = "risk_metrics" -> {"max_drawdown", "daily_pnl_volatility"}

LotMethods ==
    {"holding_times", "symbol_concentration", "streaks", "timing_patterns",
     "position_sizing"}

\* a method called on an empty lot list returns its fields, all zero or
\* empty (calculate_timing_patterns names the hour bucket 00:00-01:00,
\* calculate_all_enhanced_metrics names none)
EmptyResult(method) ==
    IF method = "all_enhanced_metrics"
    THEN /\ DOMAIN Enh = UNION {FieldsOf(m) : m \in LotMethods
                                                \cup {"risk_metrics"}}
         /\ AllZero(Enh, "N/A")
    ELSE /\ FieldsOf(method) \subseteq DOMAIN Enh
         /\ AllZero(Enh, HourLabel(0))

\* C14 as stated: each of the six reductions and
\* calculate_all_enhanced_metrics returns an all-zero/empty result when
\* given an empty lot list.
C14_EmptyLots ==
    (closed_lots = <<>> /\ pc \in LotMethods \cup {"risk_metrics",
                                                     "all_enhanced_metrics"})
    => EmptyResult(pc)

\* C14 amended: the five reductions over the lots and
\* calculate_all_enhanced_metrics return an all-zero/empty result when
\* given an empty lot list; calculate_risk_metrics, which reads the stored
\* daily rows of the account and not its lot argument, returns its
\* all-zero result when no daily row is stored.
C14_EmptyInput ==
    /\ (closed_lots = <<>> /\ pc \in LotMethods \cup {"all_enhanced_metrics"})
        => EmptyResult(pc)
    /\ (per_day_pnl = <<>> /\ pc = "risk_metrics")
        => EmptyResult(pc)

\* C14 witness: calculate_timing_patterns has returned for no lots
C14_Witness ==
    /\ pc = "timing_patterns"
    /\ closed_lots = <<>>
    /\ Enh.best_month = "N/A"
    /\ Enh.trades_per_day_avg = 0

\* C15: between requests the stored lots, daily series and aggregate of
\* the account are those of FIFO matching over all of its stored trades in
\* an ascending order of execution time.
C15_FullHistory ==
    (pc = "account" /\ trades # <<>>)
    => \E ordered \in AscendingOrders(trades) :
        LET lots == ProcessAll(EmptyEngine, ordered).closed_lots
            rows == GenerateDailyPnlSeries(lots, TRUE)
        IN /\ closed_lots = lots
           /\ per_day_pnl = rows
           /\ aggregate = Some(CalculateAggregates(lots, rows))

\* the lots one closing trade made from entries opened at one price
SplitLots(close_id, open_price) ==
    {i \in Lots : /\ closed_lots[i].close_trade_id = close_id
                  /\ closed_lots[i].open_price = open_price}

SplitQty(G) == SumOver([i \in Lots |-> closed_lots[i].open_quantity], G)

\* the rounded P&L of closing the total quantity of the lots G in one match
SingleMatchPnl(G) ==
    LET lot == closed_lots[CHOOSE i \in G : TRUE]
        diff == IF lot.position_type = "LONG"
                THEN lot.close_price - lot.open_price
                ELSE lot.open_price - lot.close_price
        exact == diff * SplitQty(G)
        cents == CHOOSE c \in (-Abs(exact))..Abs(exact) :
                    IsHalfUp(c, exact, QScale)
    IN cents

OpenPrices == {closed_lots[i].open_price : i \in Lots}

\* C16 as stated: when a closing trade is split over several entries
\* opened at the same price, the realized P&L of the lots sums to the
\* half-up-rounded P&L of closing the total quantity in one match.
C16_SumIsSingleMatch ==
    \A c \in DOMAIN trades, p \in OpenPrices :
        SplitLots(c, p) # {}
        => SumPnl(closed_lots, SplitLots(c, p))
                = SingleMatchPnl(SplitLots(c, p))

\* C16 amended: every lot's realized P&L is its own exact P&L (price
\* difference times matched quantity) rounded half-up once, nothing
\* rounded being carried from one partial match to the next; so when a
\* closing trade is split over k entries opened at the same price, the sum
\* of the lots' P&L is within (k + 1) / 2 cents of the rounded P&L of a
\* single match of the total quantity, and equal to it when every lot's
\* exact P&L is a whole number of cents.
C16_RoundedPerLot ==
    /\ \A i \in Lots :
        IsHalfUp(closed_lots[i].realized_pnl, ExactPnl(closed_lots[i]),
                 QScale)
    /\ \A c \in DOMAIN trades, p \in OpenPrices :
        LET G == SplitLots(c, p)
        IN G # {}
           => /\ 2 * Abs(SumPnl(closed_lots, G) - SingleMatchPnl(G))
                    <= Cardinality(G) + 1
              /\ (\A i \in G : ExactPnl(closed_lots[i]) % QScale = 0)
                    => SumPnl(closed_lots, G) = SingleMatchPnl(G)

\* C16 witness: a closing trade split over two entries of one price, each
\* lot rounded, with a sum that differs from the single-match P&L
C16_Witness ==
    \E c \in DOMAIN trades, p \in OpenPrices :
        /\ Cardinality(SplitLots(c, p)) >= 2
        /\ \A i \in SplitLots(c, p) : ExactPnl(closed_lots[i]) % QScale # 0
        /\ SumPnl(closed_lots, SplitLots(c, p))
                # SingleMatchPnl(SplitLots(c, p))

\* the lots in the order p gives their positions
Permuted(p) == [i \in Lots |-> closed_lots[p[i]]]

\* the lots that close on a local date
ClosedOn(day) ==
    {i \in Lots : LocalDay(closed_lots[i].close_executed_at) = day}

\* C17: for any order of the input lots, the rows of the daily series are
\* strictly ascending by date (no date twice), each row's daily_pnl is the
\* sum and lots_closed the count of the lots closing on that local date, the
\* lots_closed values sum to the number of lots, and every permutation of
\* the input gives the same rows.
C17_SeriesAnyOrder ==
    pc = "series"
    => /\ \A k \in 1..(Len(per_day_pnl) - 1) :
            per_day_pnl[k].date < per_day_pnl[k + 1].date
       /\ \A k \in DOMAIN per_day_pnl :
            /\ per_day_pnl[k].daily_pnl
                    = SumPnl(closed_lots, ClosedOn(per_day_pnl[k].date))
            /\ per_day_pnl[k].lots_closed
                    = Cardinality(ClosedOn(per_day_pnl[k].date))
       /\ SumSeq([k \in DOMAIN per_day_pnl |-> per_day_pnl[k].lots_closed])
                = Len(closed_lots)
       /\ \A p \in Permutations(Lots) :
            GenerateDailyPnlSeries(Permuted(p), fill_gaps) = per_day_pnl

\* lots given latest close first, two of them on one date, two dates
C17_Witness ==
    /\ pc = "series"
    /\ Len(per_day_pnl) >= 2
    /\ \E k \in DOMAIN per_day_pnl : per_day_pnl[k].lots_closed >= 2
    /\ \E i, j \in Lots :
        /\ i < j
        /\ closed_lots[i].close_executed_at > closed_lots[j].close_executed_at

\* the entries of all queues: symbol, position type, position in the queue
QueueEntries ==
    {<<s, y, k>> \in Symbols \X PositionTypes \X (1..MaxTrades + 1) :
        k \in DOMAIN QueueOf(s, y)}

EntryAt(e) == QueueOf(e[1], e[2])[e[3]]

EntriesOf(id) == {e \in QueueEntries : EntryAt(e).trade.id = id}

\* the quantity of a trade matched in lots it closes, matched in lots it
\* opened, and still waiting in a queue
ClosedQty(id) ==
    SumOver([i \in Lots |-> closed_lots[i].close_quantity],
            {i \in Lots : closed_lots[i].close_trade_id = id})

OpenedQty(id) ==
    SumOver([i \in Lots |-> closed_lots[i].open_quantity],
            {i \in Lots : closed_lots[i].open_trade_id = id})

WaitingQty(id) ==
    IF EntriesOf(id) = {} THEN 0
    ELSE EntryAt(CHOOSE e \in EntriesOf(id) : TRUE).qty

\* C18: quantity conservation.  After any prefix of the trades, for every
\* processed trade the quantity in lots it closes plus the quantity in lots
\* it opened plus its remaining quantity in a queue (0 without an entry) is
\* its full quantity; every queue entry is the entry of a processed trade
\* with 0 < remaining <= the trade's quantity; a trade has at most one entry.
C18_QuantityConservation ==
    /\ \A id \in DOMAIN trades :
        /\ ClosedQty(id) + OpenedQty(id) + WaitingQty(id)
                = trades[id].quantity
        /\ Cardinality(EntriesOf(id)) <= 1
    /\ \A e \in QueueEntries :
        /\ EntryAt(e).trade.id \in DOMAIN trades
        /\ EntryAt(e).trade = trades[EntryAt(e).trade.id]
        /\ 0 < EntryAt(e).qty
        /\ EntryAt(e).qty <= EntryAt(e).trade.quantity

\* C18 witness: one trade is split between lots it closes and lots it
\* opened, another between a lot it closes and a waiting remainder
C18_Witness ==
    /\ \E id \in DOMAIN trades :
        ClosedQty(id) > 0 /\ OpenedQty(id) > 0
    /\ \E id \in DOMAIN trades :
        ClosedQty(id) > 0 /\ WaitingQty(id) > 0

\* the position type a trade opens
OwnType(trade) == IF trade.side = "BUY" THEN "LONG" ELSE "SHORT"

\* the queue of a symbol and position type after the step
QueueAfter(symbol, position_type) ==
    IF position_type = "LONG" THEN long_queues'[symbol]
    ELSE short_queues'[symbol]

\* the quantity waiting in a queue
Waiting(queue) ==
    SumOver([k \in DOMAIN queue |-> queue[k].qty], DOMAIN queue)

\* C19: close-then-open.  A step that processes a trade appends only lots
\* closed by that trade, of the opposing position type, for the smaller of
\* the trade's quantity and the quantity waiting in the symbol's opposing
\* queue, which shrinks by as much.  When the trade is larger than the whole
\* opposing position, the opposing queue ends empty and the trade's own
\* queue gains exactly one entry, last, with the trade and the excess
\* quantity; otherwise the trade opens nothing.  No other queue changes.
C19_CloseThenOpen ==
    [][(pc = "matching" /\ Len(trades') = Len(trades) + 1)
       => LET opposing == QueueOf(NewTrade.symbol, OpposingType(NewTrade))
              own == QueueOf(NewTrade.symbol, OwnType(NewTrade))
              total == Waiting(opposing)
              closed == Min(NewTrade.quantity, total)
              new == (Len(closed_lots) + 1)..Len(closed_lots')
          IN /\ SubSeq(closed_lots', 1, Len(closed_lots)) = closed_lots
             /\ \A i \in new :
                    /\ closed_lots'[i].close_trade_id = NewTrade.id
                    /\ closed_lots'[i].position_type = OpposingType(NewTrade)
                    /\ closed_lots'[i].close_price = NewTrade.price
             /\ SumOver([i \in new |-> closed_lots'[i].close_quantity], new)
                    = closed
             /\ Waiting(QueueAfter(NewTrade.symbol, OpposingType(NewTrade)))
                    = total - closed
             /\ IF NewTrade.quantity > total
                THEN /\ QueueAfter(NewTrade.symbol, OpposingType(NewTrade))
                            = <<>>
                     /\ QueueAfter(NewTrade.symbol, OwnType(NewTrade))
                            = Append(own,
                                     [trade |-> NewTrade,
                                      qty |-> NewTrade.quantity - total])
                ELSE QueueAfter(NewTrade.symbol, OwnType(NewTrade)) = own
             /\ \A s \in Symbols \ {NewTrade.symbol}, y \in PositionTypes :
                    QueueAfter(s, y) = QueueOf(s, y)]_vars

\* C19 witness: the last trade has closed the whole opposing position, as
\* a lot shows, and waits last in its own queue with the excess quantity
C19_Witness ==
    /\ trades # <<>>
    /\ LET last == trades[Len(trades)]
           own == QueueOf(last.symbol, OwnType(last))
       IN /\ \E i \in Lots : closed_lots[i].close_trade_id = last.id
          /\ QueueOf(last.symbol, OpposingType(last)) = <<>>
          /\ own # <<>>
          /\ own[Len(own)].trade = last
          /\ own[Len(own)].qty + ClosedQty(last.id) = last.quantity
          /\ own[Len(own)].qty > 0

\* C20: a LONG lot is opened by a BUY and closed by a SELL, a SHORT lot is
\* opened by a SELL and closed by a BUY, and the lot, its opening trade and
\* its closing trade carry one symbol.
C20_LotSidesAndSymbol ==
    \A i \in Lots :
        LET lot == closed_lots[i]
            open == trades[lot.open_trade_id]
            close == trades[lot.close_trade_id]
        IN /\ lot.position_type \in PositionTypes
           /\ lot.position_type = "LONG"
                => open.side = "BUY" /\ close.side = "SELL"
           /\ lot.position_type = "SHORT"
                => open.side = "SELL" /\ close.side = "BUY"
           /\ open.symbol = lot.symbol
           /\ close.symbol = lot.symbol

\* C20 witness: a LONG lot and a SHORT lot have been closed
C20_Witness ==
    /\ \E i \in Lots : closed_lots[i].position_type = "LONG"
    /\ \E i \in Lots : closed_lots[i].position_type = "SHORT"

\* the position of the first lot of a symbol / of a weekday in the input
FirstOfSymbol(sym) ==
    CHOOSE i \in Lots :
        /\ closed_lots[i].symbol = sym
        /\ \A j \in 1..(i - 1) : closed_lots[j].symbol # sym

FirstOfWeekday(w) ==
    CHOOSE i \in Lots :
        /\ LotWeekday(i) = w
        /\ \A j \in 1..(i - 1) : LotWeekday(j) # w

\* C21: among the symbols (weekdays) of maximal summed P&L the reported
\* best one is the one whose first lot comes earliest in the input, and the
\* same for the minimal sum and the worst one; when all symbols have one
\* sum, best_symbol = worst_symbol.
C21_TieBreak ==
    (pc = "aggregated" /\ closed_lots # <<>>)
    => /\ \A sym \in LotSymbols :
            /\ SymbolSum(sym) <= SymbolSum(Agg.best_symbol[1])
            /\ SymbolSum(sym) = SymbolSum(Agg.best_symbol[1])
                => FirstOfSymbol(Agg.best_symbol[1]) <= FirstOfSymbol(sym)
            /\ SymbolSum(sym) >= SymbolSum(Agg.worst_symbol[1])
            /\ SymbolSum(sym) = SymbolSum(Agg.worst_symbol[1])
                => FirstOfSymbol(Agg.worst_symbol[1]) <= FirstOfSymbol(sym)
       /\ \A w \in LotWeekdays :
            /\ WeekdaySum(w) <= WeekdaySum(Agg.best_weekday[1])
            /\ WeekdaySum(w) = WeekdaySum(Agg.best_weekday[1])
                => FirstOfWeekday(Agg.best_weekday[1]) <= FirstOfWeekday(w)
            /\ WeekdaySum(w) >= WeekdaySum(Agg.worst_weekday[1])
            /\ WeekdaySum(w) = WeekdaySum(Agg.worst_weekday[1])
                => FirstOfWeekday(Agg.worst_weekday[1]) <= FirstOfWeekday(w)
       /\ (\A a, b \in LotSymbols : SymbolSum(a) = SymbolSum(b))
            => Agg.best_symbol = Agg.worst_symbol

\* C21 witness: two symbols tie at a sum that is not zero, two weekdays
\* tie too, and the input starts with the lot of the second symbol, closed
\* on the later date
C21_Witness ==
    /\ pc = "aggregated"
    /\ Len(closed_lots) >= 2
    /\ closed_lots[1].symbol # "AAPL"
    /\ closed_lots[1].close_executed_at > closed_lots[2].close_executed_at
    /\ \E a, b \in LotSymbols :
        a # b /\ SymbolSum(a) = SymbolSum(b) /\ SymbolSum(a) # 0
    /\ \E v, w \in LotWeekdays : v # w /\ WeekdaySum(v) = WeekdaySum(w)
    /\ Agg.best_symbol = Some(closed_lots[1].symbol)
    /\ Agg.best_weekday = Some(LotWeekday(1))

\* the length of the longest run of consecutive lots of one sign (1 winning,
\* -1 losing) in the walk w
LongestRun(w, sign) ==
    SetMax({0} \cup {r[2] - r[1] + 1 :
                        r \in {q \in (DOMAIN w) \X (DOMAIN w) :
                                /\ q[1] <= q[2]
                                /\ \A k \in q[1]..q[2] : w[k] * sign > 0}})

\* C22: with the lots walked in ascending close-time order (input order
\* among equal close times), longest_win_streak is the length of the
\* longest run of consecutive winning lots and longest_loss_streak that of
\* the longest run of consecutive losing lots; a breakeven lot ends a run.
C22_LongestStreaks ==
    pc = "streaks"
    => /\ Enh.longest_win_streak = LongestRun(ByCloseTime(Lots), 1)
       /\ Enh.longest_loss_streak = LongestRun(ByCloseTime(Lots), -1)

\* C22 witness: given out of close-time order, the lots walk as a winner, a
\* breakeven lot and a winner, and the longest winning run is 1
C22_Witness ==
    /\ pc = "streaks"
    /\ Len(closed_lots) = 3
    /\ closed_lots[1].close_executed_at > closed_lots[2].close_executed_at
    /\ LET w == ByCloseTime(Lots)
       IN w[1] > 0 /\ w[2] = 0 /\ w[3] > 0
    /\ Enh.longest_win_streak = 1

\* the cumulative P&L of the stored daily rows, in date order, and the
\* highest value among the first k of them
StoredCumulative ==
    [k \in DOMAIN per_day_pnl |-> per_day_pnl[k].cumulative_pnl]

PeakUpTo(k) == SetMax({StoredCumulative[j] : j \in 1..k})

\* C23: max_drawdown is the maximum over the stored daily rows, in date
\* order, of the highest cumulative P&L up to and including the row minus
\* the row's cumulative P&L; it is never negative and it is 0 exactly when
\* no row's cumulative P&L is below that of an earlier row.
C23_MaxDrawdown ==
    pc = "risk_metrics"
    => /\ \A k \in 1..(Len(per_day_pnl) - 1) :
            per_day_pnl[k].date < per_day_pnl[k + 1].date
       /\ Enh.max_drawdown
            = SetMax({0} \cup {PeakUpTo(k) - StoredCumulative[k] :
                                k \in DOMAIN per_day_pnl})
       /\ Enh.max_drawdown >= 0
       /\ Enh.max_drawdown = 0
            <=> \A j, k \in DOMAIN per_day_pnl :
                    j < k => StoredCumulative[j] <= StoredCumulative[k]

\* C23 witness: the series starts below zero and falls from its peak by
\* less than it ends below zero
C23_Witness ==
    /\ pc = "risk_metrics"
    /\ Len(per_day_pnl) >= 2
    /\ StoredCumulative[1] < 0
    /\ Enh.max_drawdown > 0
    /\ Enh.max_drawdown < -StoredCumulative[Len(per_day_pnl)]

\* the snapshot the last get_open_positions call returned
Pos == positions[1]

\* the symbols with a waiting entry
OpenSymbols ==
    {s \in Symbols : \E y \in PositionTypes : QueueOf(s, y) # <<>>}

\* the summed remaining quantity * open price of a queue
WaitingCost(queue) ==
    SumOver([k \in DOMAIN queue |-> queue[k].qty * queue[k].trade.price],
            DOMAIN queue)

\* the snapshot lists exactly the symbols with a non-empty queue, each with
\* the type of the queue, the summed remaining quantity, the number of
\* entries and the weighted mean open price rounded half-up to cents
SnapshotOfQueues ==
    /\ {k[1] : k \in DOMAIN Pos} = OpenSymbols
    /\ \A s \in Symbols, y \in PositionTypes :
        QueueOf(s, y) # <<>>
        => \E k \in DOMAIN Pos :
            /\ k[1] = s
            /\ Pos[k].type = y
            /\ Pos[k].quantity = Waiting(QueueOf(s, y))
            /\ Pos[k].lots = Len(QueueOf(s, y))
            /\ IsHalfUp(Pos[k].average_price, WaitingCost(QueueOf(s, y)),
                        Waiting(QueueOf(s, y)))
    /\ \A k \in DOMAIN Pos :
        QueueOf(k[1], Pos[k].type) # <<>>

\* C24: a get_open_positions call after process_trades returns the
\* snapshot of the queues described above and changes neither the queues
\* nor the closed-lot list.
C24_OpenPositions ==
    [][pc' = "positions"
       => /\ SnapshotOfQueues'
          /\ UNCHANGED <<long_queues, short_queues, closed_lots>>]_vars

\* C24 witness: the snapshot of a run that closed a lot holds a position of
\* two entries whose weighted mean price is not a whole number of cents
C24_Witness ==
    /\ pc = "positions"
    /\ closed_lots # <<>>
    /\ \E k \in DOMAIN Pos :
        LET queue == QueueOf(k[1], Pos[k].type)
        IN /\ Pos[k].lots >= 2
           /\ WaitingCost(queue) % Waiting(queue) # 0

TradesOf(s) ==
    LET OfSymbol(t) == t.symbol = s
    IN SelectSeq(trades, OfSymbol)

LotsOf(s) ==
    LET OfSymbol(lot) == lot.symbol = s
    IN SelectSeq(closed_lots, OfSymbol)

\* the entries of a snapshot that belong to a symbol
PositionsOf(snapshot, s) ==
    {<<k, snapshot[k]>> : k \in {j \in DOMAIN snapshot : j[1] = s}}

\* C26: symbol isolation.  For every symbol, its lots, its queues and its
\* entry in the snapshot of the open positions are those of an engine that
\* processes only the trades of that symbol, in the same relative order;
\* no lot pairs trades of two symbols.
C26_SymbolIsolation ==
    /\ \A s \in Symbols :
        LET alone == ProcessTrades(EmptyEngine, TradesOf(s))
        IN /\ LotsOf(s) = alone.closed_lots
           /\ long_queues[s] = alone.long_queues[s]
           /\ short_queues[s] = alone.short_queues[s]
           /\ positions # None
                => PositionsOf(Pos, s)
                        = PositionsOf(GetOpenPositions(alone), s)
    /\ \A i \in Lots :
        trades[closed_lots[i].open_trade_id].symbol
            = trades[closed_lots[i].close_trade_id].symbol

\* C26 witness: a BUY of one symbol, then a SELL of another, then a SELL of
\* the first; the lot pairs the first and the third trade and the second
\* waits as a short position
C26_Witness ==
    /\ pc = "positions"
    /\ Len(trades) = 3
    /\ trades[1].symbol = trades[3].symbol
    /\ trades[2].symbol # trades[1].symbol
    /\ trades[1].side = "BUY" /\ trades[2].side = "SELL"
    /\ Len(closed_lots) = 1
    /\ closed_lots[1].open_trade_id = 1
    /\ closed_lots[1].close_trade_id = 3
    /\ <<trades[2].symbol, "">> \in DOMAIN Pos
    /\ Pos[<<trades[2].symbol, "">>].type = "SHORT"

\* C27: a process_trades call on an engine that has returned a closed-lot
\* sequence before leaves the contents of that sequence unchanged.
C27_ReturnedLotsKept ==
    [][(pc \in {"returned", "positions"} /\ pc' = "matching")
       => ReturnedLots' = ReturnedLots]_vars

\* quantity * price summed over the trades of a symbol and a side
TradedValue(s, side) ==
    SumOver([id \in DOMAIN trades |-> trades[id].quantity * trades[id].price],
            {id \in DOMAIN trades :
                trades[id].symbol = s /\ trades[id].side = side})

\* the realized P&L of the lots of a symbol
RealizedOf(s) == SumPnl(closed_lots, {i \in Lots : closed_lots[i].symbol = s})

\* C28: with whole-number quantities, after any prefix of the trades the
\* realized P&L of every symbol is its SELL value minus its BUY value plus
\* the remaining quantity * open price of its long entries minus that of
\* its short entries; without an open position it is SELL value minus BUY
\* value.  (Quantities count 1/QScale shares, so the sums are in
\* cents/QScale.)
C28_PnlIdentity ==
    (\A id \in DOMAIN trades : trades[id].quantity % QScale = 0)
    => \A s \in Symbols :
        /\ QScale * RealizedOf(s)
            = TradedValue(s, "SELL") - TradedValue(s, "BUY")
                + WaitingCost(long_queues[s]) - WaitingCost(short_queues[s])
        /\ (long_queues[s] = <<>> /\ short_queues[s] = <<>>)
            => QScale * RealizedOf(s)
                    = TradedValue(s, "SELL") - TradedValue(s, "BUY")

\* C28 witness: a SHORT lot with a P&L other than zero has been closed out
\* of an entry that still waits with a part of its quantity
C28_Witness ==
    \E i \in Lots :
        /\ closed_lots[i].position_type = "SHORT"
        /\ closed_lots[i].realized_pnl # 0
        /\ short_queues[closed_lots[i].symbol] # <<>>
        /\ short_queues[closed_lots[i].symbol][1].trade.id
                = closed_lots[i].open_trade_id

\* the breakeven lots
Breakeven == {i \in Lots : closed_lots[i].realized_pnl = 0}

\* C29: in the aggregate of a non-empty lot list total_gains >= 0,
\* total_losses <= 0, total_realized_pnl = total_gains + total_losses, and
\* winning_lots + losing_lots <= total_lots_closed, the difference being
\* the number of breakeven lots, which are in the denominator of a reported
\* win rate but count neither as winners nor as losers.
C29_GainsAndLosses ==
    (pc = "aggregated" /\ closed_lots # <<>>)
    => /\ Agg.total_gains >= 0
       /\ Agg.total_losses <= 0
       /\ Agg.total_realized_pnl = Agg.total_gains + Agg.total_losses
       /\ Agg.winning_lots + Agg.losing_lots <= Agg.total_lots_closed
       /\ Agg.total_lots_closed - Agg.winning_lots - Agg.losing_lots
            = Cardinality(Breakeven)
       /\ Agg.winning_lots = Cardinality(Winners)
       /\ Agg.losing_lots = Cardinality(Losers)
       /\ Agg.total_lots_closed
            = Cardinality(Winners) + Cardinality(Losers)
                + Cardinality(Breakeven)
       /\ Agg.win_rate # None
            => Agg.win_rate
                = Some(Quantize(Agg.winning_lots * 10000,
                                Agg.winning_lots + Agg.losing_lots
                                    + Cardinality(Breakeven)))

\* C29 witness: the aggregate of a winning, a losing and a breakeven lot
C29_Witness ==
    /\ pc = "aggregated"
    /\ Winners # {}
    /\ Losers # {}
    /\ Breakeven # {}
    /\ Agg.total_gains > 0
    /\ Agg.total_losses < 0
    /\ Agg.win_rate # None

\* C30: in every committed state of the account the stored daily series
\* and the stored aggregate are the ones derived from the stored closed
\* lots (no aggregate is stored before the first run).
C30_StoredMetricsOfStoredLots ==
    /\ per_day_pnl = GenerateDailyPnlSeries(closed_lots, TRUE)
    /\ aggregate = None => closed_lots = <<>>
    /\ aggregate # None
        => aggregate = Some(CalculateAggregates(closed_lots, per_day_pnl))

====
